---- MODULE Spec2Model ----
(***************************************************************************)
(* State-machine model of the concurrency core of ezex-io/gopkg:           *)
(*   - the retry executors (util/retry/retry.go, util/retry/sync.go,       *)
(*     util/retry/async.go, retry/async.go and the sync.Once revision of   *)
(*     ExecuteAsync),                                                      *)
(*   - the periodic runner Every / After and the job Scheduler,            *)
(*   - the backoff strategies and RetryableError as functions,             *)
(*   - the Pipeline (pipeline package) and the BasicCache (cache package). *)
(* Each component has its own specification over the shared variables; the *)
(* variables of the other components stay at their idle values.            *)
(***************************************************************************)
EXTENDS Integers, Sequences, FiniteSets, TLC

(***************************************************************************)
(* Bounds of the model.                                                    *)
(***************************************************************************)
\* largest MaxAttempts / maxRetries explored
MaxK == 3
\* largest base duration of a backoff strategy / retry delay (0 included)
MaxDelay == 1
\* number of intervals the ticker of Every lets elapse
MaxTicks == 3
\* largest number of jobs registered with a Scheduler
NJobs == 2
\* largest delay handed to After, and the last instant of the clock
MaxDuration == 2
MaxNow == 4
\* arguments of the calls of the backoff strategies: largest attempt number,
\* largest duration / initial delay, largest multiplier, largest maxDelay, and
\* largest value drawn from the random source
MaxAttemptNo == 3
MaxBase == 3
MaxMultiplier == 2
MaxCap == 4
MaxRand == 3
\* Pipeline: largest channel buffer size (0 = unbuffered), largest number of
\* registered receivers, number of goroutines calling Send, number of Send
\* calls in all, and number of Close calls
MaxBuf == 2
MaxRecv == 2
NSenders == 2
MaxMsgs == 3
NClosers == 2
\* BasicCache: number of keys, last instant of its clock, and largest
\* expiration handed to Add and Update (0 = never expires)
NKeys == 2
MaxClock == 3
MaxExpiration == 1

VARIABLES
    \* ---- retry executors -------------------------------------------------
    entry,          \* entry point that was called
    maxAttempts,    \* config.MaxAttempts / conf.maxRetries
    timeoutSet,     \* config.Timeout > 0
    shouldRetry,    \* shouldRetry argument of the entry point; "nil" where the
                    \* entry point has none
    strategy,       \* config.BackoffStrategy / conf.retryDelay: [kind, d]
    onSuccessNil,   \* onSuccess == nil
    onFailureNil,   \* onFailure == nil
    onRetryNil,     \* config.OnRetry == nil
    ctxAtEntry,     \* ctx.Err() at the moment of the call: "none" or "Canceled"
    ctxErr,         \* retryCtx.Err(): "none", "Canceled", "DeadlineExceeded"
    pc,             \* position of the executing goroutine
    attempt,        \* loop counter (0-based)
    results,        \* result of every task invocation so far, in order
    lastErr,        \* lastErr / err local
    ret,            \* value the loop concluded with
    once,           \* sync.Once already fired
    onSuccessCalls, \* number of onSuccess invocations
    onFailureCalls, \* arguments of the onFailure invocations, in order
    onRetryLog,     \* arguments (attempt, lastErr, nextWait) of OnRetry calls
    waitLog,        \* durations handed to time.After, in order
    waitedOut,      \* number of waits that ran to their end
    cancelInWait,   \* number of task invocations made when the context became
                    \* done while the goroutine was blocked in the wait (-1: never)
    \* ---- Every and the Scheduler ----------------------------------------
    cbKind,         \* callback of the Every loop: "callback" (a caller's function)
                    \* or "runJobs" (Scheduler.Start)
    impl,           \* revision of runJobs: "errgroup" or "waitgroup"
    jobs,           \* Scheduler.jobs: registered jobs in insertion order
    onSuccessKind,  \* onSuccess: "nil", "plain", or "cancels" (cancels the token)
    sctxDone,       \* the token of the Every loop / Scheduler is cancelled
    everyPc,        \* position of the goroutine of Every
    tickPending,    \* a tick is buffered in ticker.C
    ticksElapsed,   \* intervals elapsed since time.NewTicker
    tick,           \* callback invocations begun so far
    inv,            \* state of each callback invocation
    panics,         \* panics raised by callback invocations
    panicLogs,      \* "scheduler: panic in job" lines logged
    cancelledInCall,\* invocation during which the callback cancelled the token (0: none)
    \* ---- After ----------------------------------------------------------
    duration,       \* b.duration
    now,            \* the clock
    actxDone,       \* the token handed to Do is cancelled
    afterPc,        \* position of the goroutine of After
    timerAt,        \* instant at which the timer fires (-1: no timer yet)
    afterCalls,     \* number of callback invocations
    calledAt,       \* instant of the callback invocation (-1: none)
    cancelEarly,    \* the token was cancelled before the delay had elapsed
    \* ---- calls of the backoff strategies and of RetryableError ----------
    fn,             \* the function that is called
    arg,            \* its arguments
    out,            \* [status, val]: "pending", "ok" with the value returned,
                    \* or "fault" when the call panicked
    \* ---- Pipeline -------------------------------------------------------
    bufSize,        \* cap(p.ch)
    nRecv,          \* len(p.receivers)
    pctxErr,        \* p.ctx.Err(): "none", "Canceled" or "DeadlineExceeded"
    closed,         \* p.closed
    closeOps,       \* number of close(p.ch) executed
    fault,          \* the panic raised by a channel operation, or "none"
    ch,             \* the values buffered in p.ch
    spc,            \* position of each goroutine that calls Send
    smsg,           \* the number of the Send call each of them is in, or 0
    nextMsg,        \* number of Send calls started so far
    cpc,            \* position of each Close call
    rlPc,           \* position of receiveLoop
    rlData,         \* the value receiveLoop is fanning out, or <<0, 0>>
    rlIdx,          \* index of the last receiver that was handed rlData
    sent,           \* history: the values put on p.ch, in channel order; a
                    \* value is <<sending goroutine, number of the call>>
    delivered,      \* history: the values handed to each receiver, in order
    late,           \* history: the numbers of the Send calls that took the
                    \* read lock after a Close had returned
    stale,          \* history: the numbers of the Send calls in progress that
                    \* began with p.ctx done, and of those whose value went
                    \* onto p.ch
    owed,           \* history: the numbers of the Send calls whose value was
                    \* on p.ch or with receiveLoop when Close was first
                    \* called with the parent context live, and has not yet
                    \* been handed to every receiver
    \* ---- BasicCache -------------------------------------------------------
    cache,          \* the sync.Map: key -> entry (its Expiry) or NoEntry
    clock,          \* time.Now()
    cctxDone,       \* the context given to NewBasic is cancelled
    sweepDue,       \* a tick of the sweep's ticker is ready
    swPc,           \* position of the goroutine of Every that sweeps
    swSeen,         \* keys the Range of the sweep has handed to its callback
    swKey,          \* key and
    swEntry,        \* value the callback of the Range was handed
    res,            \* what the last call of Get, Exists or Keys reported
    upd             \* the Update in progress: its key, the entry it loaded
                    \* and its expiration argument (key 0: none in progress)

cfgVars == <<entry, maxAttempts, timeoutSet, shouldRetry, strategy, onSuccessNil,
             onFailureNil, onRetryNil, ctxAtEntry>>

retryVars == <<cfgVars, ctxErr, pc, attempt, results, lastErr, ret, once,
               onSuccessCalls, onFailureCalls, onRetryLog, waitLog, waitedOut,
               cancelInWait>>

schedCfg == <<cbKind, impl, jobs, onSuccessKind>>

schedVars == <<schedCfg, sctxDone, everyPc, tickPending, ticksElapsed, tick, inv,
               panics, panicLogs, cancelledInCall>>

afterVars == <<duration, now, actxDone, afterPc, timerAt, afterCalls, calledAt,
               cancelEarly>>

pureVars == <<fn, arg, out>>

pipeVars == <<bufSize, nRecv, pctxErr, closed, closeOps, fault, ch, spc, smsg,
              nextMsg, cpc, rlPc, rlData, rlIdx, sent, delivered, late, stale,
              owed>>

cacheVars == <<cache, clock, cctxDone, sweepDue, swPc, swSeen, swKey, swEntry,
               res, upd>>

vars == <<retryVars, schedVars, afterVars, pureVars, pipeVars, cacheVars>>

\* what an action of one component leaves alone in the others
notRetry == <<schedVars, afterVars, pureVars, pipeVars, cacheVars>>
notSched == <<retryVars, afterVars, pureVars, pipeVars, cacheVars>>
notAfter == <<retryVars, schedVars, pureVars, pipeVars, cacheVars>>
notPure == <<retryVars, schedVars, afterVars, pipeVars, cacheVars>>
notPipe == <<retryVars, schedVars, afterVars, pureVars, cacheVars>>
notCache == <<retryVars, schedVars, afterVars, pureVars, pipeVars>>

(***************************************************************************)
(* Errors.  A task error is identified by the invocation that returned it   *)
(* and carries a kind: "temp" reports Temporary() = true, "fatal" carries   *)
(* no marker.                                                               *)
(***************************************************************************)
NoErr == <<"nil", 0>>
TaskErr(kind, i) == <<kind, i>>
CtxError(c) == <<c, 0>>
TaskResults == {"nil", "temp", "fatal"}

IsTaskErr(e) == e[1] \in {"temp", "fatal"}

\* an error value as RetryableError sees it: nil or not, and for each of the
\* methods Temporary() and Timeout() whether the error has it ("absent") and
\* what it returns
MarkerValues == {"absent", "true", "false"}
NilError == [isNil |-> TRUE, temporary |-> "absent", timeout |-> "absent"]
ErrorValues ==
    {NilError} \cup {[isNil |-> FALSE, temporary |-> t, timeout |-> o] :
                        t \in MarkerValues, o \in MarkerValues}

\* RetryableError on the markers of an error
RetryableErrorByMarkers(err) ==
    IF err.isNil THEN FALSE
    ELSE IF err.temporary # "absent" THEN err.temporary = "true"
    ELSE IF err.timeout # "absent" THEN err.timeout = "true"
    ELSE FALSE

\* the markers of a task error of the retry loop
ErrorMarkers(e) ==
    [isNil |-> FALSE,
     temporary |-> IF e[1] = "temp" THEN "true" ELSE "absent",
     timeout |-> "absent"]

\* RetryableError as far as the retry loop needs it
RetryableError(e) == RetryableErrorByMarkers(ErrorMarkers(e))

\* predicates a caller hands to ExecuteSyncWithPredicate: none, the package's
\* RetryableError, or one of its own that accepts / rejects every error
Predicates == {"nil", "RetryableError", "Always", "Never"}

\* variant: every error is taken as retryable
ShouldRetry_Always(p, e) == TRUE

\* !(shouldRetry != nil && !shouldRetry(err))
ShouldRetry(p, e) ==
    CASE p = "RetryableError" -> RetryableError(e)
      [] p = "Never"          -> FALSE
      [] OTHER                -> TRUE

(***************************************************************************)
(* Backoff strategies: functions from the attempt number to a duration.    *)
(***************************************************************************)
NoBackoff(n) == 0
FixedBackoff(d, n) == IF n = 0 THEN 0 ELSE d

\* variant: the increment is not multiplied by the attempt number
LinearBackoff_Constant(d, n) == IF n = 0 THEN 0 ELSE d

LinearBackoff(d, n) == IF n = 0 THEN 0 ELSE n * d

\* math.Pow on the integers explored
RECURSIVE Pow(_, _)
Pow(m, k) == IF k = 0 THEN 1 ELSE m * Pow(m, k - 1)

\* a call that returned v / a call that panicked
Returned(v) == [status |-> "ok", val |-> v]
Faulted == [status |-> "fault", val |-> 0]
Pending == [status |-> "pending", val |-> 0]

\* the delay before the jitter: initialDelay * multiplier^(attempt-1), capped
ExponentialDelay(initialDelay, multiplier, maxDelay, n) ==
    LET delay == initialDelay * Pow(multiplier, n - 1)
    IN  IF delay > maxDelay THEN maxDelay ELSE delay

\* ExponentialBackoff(initialDelay, multiplier, maxDelay)(n) when the random
\* source yields rnd; the remainder by a zero delay is an integer division by
\* zero, which panics
ExponentialBackoff(initialDelay, multiplier, maxDelay, n, rnd) ==
    IF n = 0 THEN Returned(0)
    ELSE LET delay == ExponentialDelay(initialDelay, multiplier, maxDelay, n)
         IN  IF delay = 0 THEN Faulted
             ELSE LET jitter == rnd % delay
                  IN  Returned((delay \div 2) + (jitter \div 2))

BackoffStrategy(s, n) ==
    CASE s.kind = "None"   -> NoBackoff(n)
      [] s.kind = "Fixed"  -> FixedBackoff(s.d, n)
      [] s.kind = "Linear" -> LinearBackoff(s.d, n)

Strategies == {[kind |-> "None", d |-> 0]} \cup
              {[kind |-> k, d |-> d] : k \in {"Fixed", "Linear"}, d \in 0..MaxDelay}

(***************************************************************************)
(* Values of the variables of a component that is not running.              *)
(***************************************************************************)
SchedIdle ==
    /\ cbKind = "none"
    /\ impl = "none"
    /\ jobs = <<>>
    /\ onSuccessKind = "nil"
    /\ sctxDone = FALSE
    /\ everyPc = "idle"
    /\ tickPending = FALSE
    /\ ticksElapsed = 0
    /\ tick = 0
    /\ inv = <<>>
    /\ panics = 0
    /\ panicLogs = 0
    /\ cancelledInCall = 0

AfterIdle ==
    /\ duration = 0
    /\ now = 0
    /\ actxDone = FALSE
    /\ afterPc = "idle"
    /\ timerAt = -1
    /\ afterCalls = 0
    /\ calledAt = -1
    /\ cancelEarly = FALSE

PureIdle ==
    /\ fn = "none"
    /\ arg = <<>>
    /\ out = Pending

PipeIdle ==
    /\ bufSize = 0
    /\ nRecv = 0
    /\ pctxErr = "none"
    /\ closed = FALSE
    /\ closeOps = 0
    /\ fault = "none"
    /\ ch = <<>>
    /\ spc = <<>>
    /\ smsg = <<>>
    /\ nextMsg = 0
    /\ cpc = <<>>
    /\ rlPc = "none"
    /\ rlData = <<0, 0>>
    /\ rlIdx = 0
    /\ sent = <<>>
    /\ delivered = <<>>
    /\ late = {}
    /\ stale = {}
    /\ owed = {}

\* BasicCache: keys, absent entry, zero time, and idle values
CacheKeys == 1..NKeys

\* Load found nothing / the key is absent from the sync.Map
NoEntry == [expiry |-> -1]

\* no call of Get, Exists or Keys has returned and not been consumed
NoRes == [op |-> "none", keys |-> {}]

\* basicCacheEntry: Expiry.IsZero(); 0 is the zero time.Time of an entry
\* added with expiration 0
IsZero(e) == e.expiry = 0

\* time.Now().After(entry.Expiry) of an entry that expires
Expired(e) == e # NoEntry /\ ~IsZero(e) /\ clock > e.expiry

CacheIdle ==
    /\ cache = <<>>
    /\ clock = 0
    /\ cctxDone = FALSE
    /\ sweepDue = FALSE
    /\ swPc = "none"
    /\ swSeen = {}
    /\ swKey = 0
    /\ swEntry = NoEntry
    /\ res = NoRes
    /\ upd = [key |-> 0, entry |-> NoEntry, expiration |-> 0]

RetryIdle ==
    /\ entry = "none"
    /\ maxAttempts = 0
    /\ timeoutSet = FALSE
    /\ shouldRetry = "nil"
    /\ strategy = [kind |-> "None", d |-> 0]
    /\ onSuccessNil = TRUE
    /\ onFailureNil = TRUE
    /\ onRetryNil = TRUE
    /\ ctxAtEntry = "none"
    /\ ctxErr = "none"
    /\ pc = "idle"
    /\ attempt = 0
    /\ results = <<>>
    /\ lastErr = <<"nil", 0>>
    /\ ret = <<"pending", 0>>
    /\ once = FALSE
    /\ onSuccessCalls = 0
    /\ onFailureCalls = <<>>
    /\ onRetryLog = <<>>
    /\ waitLog = <<>>
    /\ waitedOut = 0
    /\ cancelInWait = -1

(***************************************************************************)
(* Entry points.                                                           *)
(*   ExecuteSync, ExecuteAsync, ExecuteSyncWithPredicate: the Config-based *)
(*     executors of util/retry/retry.go, all running retryLoop;            *)
(*   ExecuteSyncT: the fixed-delay executor of util/retry/sync.go;         *)
(*   ExecuteAsyncOnce: the fixed-delay ExecuteAsync guarded by sync.Once;  *)
(*   ExecuteAsyncT: the fixed-delay executor of util/retry/async.go;       *)
(*   ExecuteAsyncViaT: ExecuteAsync of util/retry/async.go, which hands    *)
(*     nil-checking wrappers of its callbacks to ExecuteAsyncT;            *)
(*   ExecuteAsyncFailureOnly: ExecuteAsync of retry/async.go, which takes  *)
(*     no onSuccess.                                                       *)
(***************************************************************************)
RetryLoopEntries == {"ExecuteSync", "ExecuteAsync", "ExecuteSyncWithPredicate"}
AsyncEntries == {"ExecuteAsync", "ExecuteAsyncOnce"}
FixedAsyncEntries == {"ExecuteAsyncT", "ExecuteAsyncViaT", "ExecuteAsyncFailureOnly"}

\* NewRetryConfig + WithMaxAttempts: a value <= 0 is ignored, so MaxAttempts >= 1
ConfigMaxAttempts == 1..MaxK
\* WithSyncMaxRetries / WithAsyncMaxRetries store any value
OptionMaxRetries == (-1)..MaxK

RetryInit ==
    /\ entry \in RetryLoopEntries \cup {"ExecuteSyncT", "ExecuteAsyncOnce"}
                  \cup FixedAsyncEntries
    /\ IF entry \in RetryLoopEntries
       THEN /\ maxAttempts \in ConfigMaxAttempts
            /\ timeoutSet \in BOOLEAN
            /\ strategy \in Strategies
            /\ onRetryNil \in BOOLEAN
            /\ shouldRetry \in IF entry = "ExecuteSyncWithPredicate"
                               THEN Predicates ELSE {"nil"}
       ELSE /\ maxAttempts \in OptionMaxRetries
            /\ timeoutSet = FALSE
            /\ strategy \in {[kind |-> "Fixed", d |-> d] : d \in 0..MaxDelay}
            /\ onRetryNil = TRUE
            /\ shouldRetry = "nil"
    /\ IF entry \in AsyncEntries \cup FixedAsyncEntries
       THEN /\ onSuccessNil \in IF entry = "ExecuteAsyncFailureOnly" THEN {TRUE}
                                ELSE BOOLEAN
            /\ onFailureNil \in BOOLEAN
       ELSE onSuccessNil = TRUE /\ onFailureNil = TRUE
    /\ ctxAtEntry \in {"none", "Canceled"}
    /\ ctxErr = ctxAtEntry
    /\ pc = "check"
    /\ attempt = 0
    /\ results = <<>>
    /\ lastErr = NoErr
    /\ ret = <<"pending", 0>>
    /\ once = FALSE
    /\ onSuccessCalls = 0
    /\ onFailureCalls = <<>>
    /\ onRetryLog = <<>>
    /\ waitLog = <<>>
    /\ waitedOut = 0
    /\ cancelInWait = -1

(***************************************************************************)
(* The select between the context and the timer, as the Go runtime runs it. *)
(* On entry a ready case is taken (any of them when several are ready);     *)
(* otherwise the goroutine blocks and the first event to arrive wakes it.   *)
(***************************************************************************)
\* duration handed to time.After by the wait in progress
CurrentWait == waitLog[Len(waitLog)]

RetrySelect ==
    /\ pc = "select"
    /\ \/ /\ CurrentWait = 0
          /\ pc' = "wokeTimer"
       \/ /\ ctxErr # "none"
          /\ pc' = "wokeDone"
       \/ /\ CurrentWait # 0
          /\ ctxErr = "none"
          /\ pc' = "waiting"
    /\ UNCHANGED <<notRetry, cfgVars, ctxErr, attempt, results, lastErr, ret, once, onSuccessCalls,
                   onFailureCalls, onRetryLog, waitLog, waitedOut, cancelInWait>>

\* the timer of the wait fires while the goroutine is blocked in the select
RetryTimerFired ==
    /\ pc = "waiting"
    /\ pc' = "wokeTimer"
    /\ UNCHANGED <<notRetry, cfgVars, ctxErr, attempt, results, lastErr, ret, once, onSuccessCalls,
                   onFailureCalls, onRetryLog, waitLog, waitedOut, cancelInWait>>

\* the context becomes done with error c; a goroutine blocked in the select wakes
ContextDone(c) ==
    /\ ctxErr = "none"
    /\ pc \notin {"done", "fault"}
    /\ ctxErr' = c
    /\ pc' = IF pc = "waiting" THEN "wokeDone" ELSE pc
    /\ cancelInWait' = IF pc = "waiting" THEN Len(results) ELSE cancelInWait
    /\ UNCHANGED <<notRetry, cfgVars, attempt, results, lastErr, ret, once, onSuccessCalls,
                   onFailureCalls, onRetryLog, waitLog, waitedOut>>

\* the caller cancels the context
RetryCancel == ContextDone("Canceled")

\* the context.WithTimeout of retryLoop expires
RetryTimeout == timeoutSet /\ ContextDone("DeadlineExceeded")

(***************************************************************************)
(* retryLoop (util/retry/retry.go).                                        *)
(***************************************************************************)
\* variant: a nil predicate is handed on to retryLoop as it is
LoopPredicate_NoFallback == shouldRetry

\* the predicate retryLoop runs with: ExecuteSyncWithPredicate replaces a nil
\* predicate by RetryableError; ExecuteSync and ExecuteAsync pass nil
LoopPredicate ==
    IF entry = "ExecuteSyncWithPredicate" /\ shouldRetry = "nil"
    THEN "RetryableError" ELSE shouldRetry

\* a return statement of retryLoop; ExecuteAsync goes on with its callbacks
Conclude(e) ==
    /\ ret' = e
    /\ pc' = IF entry = "ExecuteAsync" THEN "callback" ELSE "done"

\* variant: the loop head goes to the attempt without consulting the context
retryLoop_Check_NoContextCheck ==
    /\ entry \in RetryLoopEntries
    /\ pc = "check"
    /\ IF attempt >= maxAttempts THEN Conclude(lastErr)
       ELSE pc' = "call" /\ ret' = ret
    /\ UNCHANGED <<notRetry, cfgVars, ctxErr, attempt, results, lastErr, once, onSuccessCalls,
                   onFailureCalls, onRetryLog, waitLog, waitedOut, cancelInWait>>

\* loop head and the non-blocking context check before an attempt
retryLoop_Check ==
    /\ entry \in RetryLoopEntries
    /\ pc = "check"
    /\ IF attempt >= maxAttempts THEN Conclude(lastErr)
       ELSE IF ctxErr # "none" THEN Conclude(CtxError(ctxErr))
       ELSE pc' = "call" /\ ret' = ret
    /\ UNCHANGED <<notRetry, cfgVars, ctxErr, attempt, results, lastErr, once, onSuccessCalls,
                   onFailureCalls, onRetryLog, waitLog, waitedOut, cancelInWait>>

\* variant: the last attempt is recognised one iteration early
IsLastAttempt_OneEarly(a, k) == a >= k - 2

\* variant: the loop also waits after the attempt numbered MaxAttempts
IsLastAttempt_OneLate(a, k) == a = k

\* attempt == config.MaxAttempts-1
IsLastAttempt(a, k) == a = k - 1

\* variant: a success leaves the loop and the function returns lastErr
retryLoop_Call_BreakOnSuccess ==
    /\ entry \in RetryLoopEntries
    /\ pc = "call"
    /\ \E r \in TaskResults :
         LET e == TaskErr(r, Len(results) + 1) IN
         /\ results' = Append(results, r)
         /\ IF r = "nil" THEN Conclude(lastErr) /\ lastErr' = lastErr
            ELSE /\ lastErr' = e
                 /\ IF ~ShouldRetry(LoopPredicate, e) THEN Conclude(e)
                    ELSE IF IsLastAttempt(attempt, maxAttempts) THEN Conclude(e)
                    ELSE pc' = "backoff" /\ ret' = ret
    /\ UNCHANGED <<notRetry, cfgVars, ctxErr, attempt, once, onSuccessCalls, onFailureCalls,
                   onRetryLog, waitLog, waitedOut, cancelInWait>>

\* fn() and the decisions on its result
retryLoop_Call ==
    /\ entry \in RetryLoopEntries
    /\ pc = "call"
    /\ \E r \in TaskResults :
         LET e == TaskErr(r, Len(results) + 1) IN
         /\ results' = Append(results, r)
         /\ IF r = "nil" THEN Conclude(NoErr) /\ lastErr' = lastErr
            ELSE /\ lastErr' = e
                 /\ IF ~ShouldRetry(LoopPredicate, e) THEN Conclude(e)
                    ELSE IF IsLastAttempt(attempt, maxAttempts) THEN Conclude(e)
                    ELSE pc' = "backoff" /\ ret' = ret
    /\ UNCHANGED <<notRetry, cfgVars, ctxErr, attempt, once, onSuccessCalls, onFailureCalls,
                   onRetryLog, waitLog, waitedOut, cancelInWait>>

\* the wait duration of the retry
WaitDuration(s, a) == BackoffStrategy(s, a)

\* the nextWait reported to OnRetry
NextWait(s, a) == BackoffStrategy(s, a + 1)

\* waitDuration, OnRetry, and the timer of the wait
retryLoop_Backoff ==
    /\ entry \in RetryLoopEntries
    /\ pc = "backoff"
    /\ waitLog' = Append(waitLog, WaitDuration(strategy, attempt))
    /\ onRetryLog' = IF onRetryNil THEN onRetryLog
                     ELSE Append(onRetryLog,
                                 <<attempt + 1, lastErr, NextWait(strategy, attempt)>>)
    /\ pc' = "select"
    /\ UNCHANGED <<notRetry, cfgVars, ctxErr, attempt, results, lastErr, ret, once, onSuccessCalls,
                   onFailureCalls, waitedOut, cancelInWait>>

\* case <-time.After(waitDuration): next iteration
retryLoop_AfterWait ==
    /\ entry \in RetryLoopEntries
    /\ pc = "wokeTimer"
    /\ attempt' = attempt + 1
    /\ waitedOut' = waitedOut + 1
    /\ pc' = "check"
    /\ UNCHANGED <<notRetry, cfgVars, ctxErr, results, lastErr, ret, once, onSuccessCalls,
                   onFailureCalls, onRetryLog, waitLog, cancelInWait>>

\* variant: a wait ended by the context returns the task's last error
retryLoop_WaitCancelled_LastErr ==
    /\ entry \in RetryLoopEntries
    /\ pc = "wokeDone"
    /\ Conclude(lastErr)
    /\ UNCHANGED <<notRetry, cfgVars, ctxErr, attempt, results, lastErr, once, onSuccessCalls,
                   onFailureCalls, onRetryLog, waitLog, waitedOut, cancelInWait>>

\* case <-retryCtx.Done(): return retryCtx.Err()
retryLoop_WaitCancelled ==
    /\ entry \in RetryLoopEntries
    /\ pc = "wokeDone"
    /\ Conclude(CtxError(ctxErr))
    /\ UNCHANGED <<notRetry, cfgVars, ctxErr, attempt, results, lastErr, once, onSuccessCalls,
                   onFailureCalls, onRetryLog, waitLog, waitedOut, cancelInWait>>

(***************************************************************************)
(* The callbacks of ExecuteAsync, guarded by one sync.Once.                 *)
(***************************************************************************)
callSuccess ==
    /\ once' = TRUE
    /\ onSuccessCalls' = IF ~once /\ ~onSuccessNil THEN onSuccessCalls + 1
                         ELSE onSuccessCalls
    /\ UNCHANGED onFailureCalls

callFailure(e) ==
    /\ once' = TRUE
    /\ onFailureCalls' = IF ~once /\ ~onFailureNil THEN Append(onFailureCalls, e)
                         ELSE onFailureCalls
    /\ UNCHANGED onSuccessCalls

\* variant: a context error is not reported to onFailure
ExecuteAsync_Callback_TaskErrorsOnly ==
    /\ entry = "ExecuteAsync"
    /\ pc = "callback"
    /\ IF ret = NoErr THEN callSuccess
       ELSE IF IsTaskErr(ret) THEN callFailure(ret)
       ELSE UNCHANGED <<once, onSuccessCalls, onFailureCalls>>
    /\ pc' = "done"
    /\ UNCHANGED <<notRetry, cfgVars, ctxErr, attempt, results, lastErr, ret, onRetryLog, waitLog,
                   waitedOut, cancelInWait>>

\* the goroutine of ExecuteAsync after retryLoop returned
ExecuteAsync_Callback ==
    /\ entry = "ExecuteAsync"
    /\ pc = "callback"
    /\ IF ret = NoErr THEN callSuccess ELSE callFailure(ret)
    /\ pc' = "done"
    /\ UNCHANGED <<notRetry, cfgVars, ctxErr, attempt, results, lastErr, ret, onRetryLog, waitLog,
                   waitedOut, cancelInWait>>

RetryLoopNext ==
    \/ retryLoop_Check
    \/ retryLoop_Call
    \/ retryLoop_Backoff
    \/ retryLoop_AfterWait
    \/ retryLoop_WaitCancelled
    \/ ExecuteAsync_Callback

(***************************************************************************)
(* ExecuteSyncT (util/retry/sync.go): fixed delay, no check before the      *)
(* attempt.                                                                 *)
(***************************************************************************)
\* loop head; after the loop: return result, err
ExecuteSyncT_Loop ==
    /\ entry = "ExecuteSyncT"
    /\ pc = "check"
    /\ IF attempt < maxAttempts THEN pc' = "call" /\ ret' = ret
       ELSE ret' = lastErr /\ pc' = "done"
    /\ UNCHANGED <<notRetry, cfgVars, ctxErr, attempt, results, lastErr, once, onSuccessCalls,
                   onFailureCalls, onRetryLog, waitLog, waitedOut, cancelInWait>>

\* task() and the decisions on its result
ExecuteSyncT_Call ==
    /\ entry = "ExecuteSyncT"
    /\ pc = "call"
    /\ \E r \in TaskResults :
         /\ results' = Append(results, r)
         /\ lastErr' = IF r = "nil" THEN NoErr ELSE TaskErr(r, Len(results) + 1)
         /\ IF r = "nil"
            THEN ret' = NoErr /\ pc' = "done" /\ UNCHANGED <<attempt, waitLog>>
            ELSE IF attempt < maxAttempts - 1
            THEN /\ waitLog' = Append(waitLog, strategy.d)
                 /\ pc' = "select"
                 /\ UNCHANGED <<attempt, ret>>
            ELSE /\ attempt' = attempt + 1
                 /\ pc' = "check"
                 /\ UNCHANGED <<ret, waitLog>>
    /\ UNCHANGED <<notRetry, cfgVars, ctxErr, once, onSuccessCalls, onFailureCalls, onRetryLog,
                   waitedOut, cancelInWait>>

\* case <-time.After(conf.retryDelay): continue to the next retry
ExecuteSyncT_AfterWait ==
    /\ entry = "ExecuteSyncT"
    /\ pc = "wokeTimer"
    /\ attempt' = attempt + 1
    /\ waitedOut' = waitedOut + 1
    /\ pc' = "check"
    /\ UNCHANGED <<notRetry, cfgVars, ctxErr, results, lastErr, ret, once, onSuccessCalls,
                   onFailureCalls, onRetryLog, waitLog, cancelInWait>>

\* variant: the cancelled wait returns the task's error
ExecuteSyncT_WaitCancelled_TaskError ==
    /\ entry = "ExecuteSyncT"
    /\ pc = "wokeDone"
    /\ ret' = lastErr
    /\ pc' = "done"
    /\ UNCHANGED <<notRetry, cfgVars, ctxErr, attempt, results, lastErr, once, onSuccessCalls,
                   onFailureCalls, onRetryLog, waitLog, waitedOut, cancelInWait>>

\* case <-ctx.Done(): return result, ctx.Err()
ExecuteSyncT_WaitCancelled ==
    /\ entry = "ExecuteSyncT"
    /\ pc = "wokeDone"
    /\ ret' = CtxError(ctxErr)
    /\ pc' = "done"
    /\ UNCHANGED <<notRetry, cfgVars, ctxErr, attempt, results, lastErr, once, onSuccessCalls,
                   onFailureCalls, onRetryLog, waitLog, waitedOut, cancelInWait>>

ExecuteSyncTNext ==
    \/ ExecuteSyncT_Loop
    \/ ExecuteSyncT_Call
    \/ ExecuteSyncT_AfterWait
    \/ ExecuteSyncT_WaitCancelled

(***************************************************************************)
(* ExecuteAsync, fixed delay, callbacks guarded by sync.Once.               *)
(***************************************************************************)
\* loop head with the context check; after the loop: callFailure(lastErr)
AsyncOnce_Check ==
    /\ entry = "ExecuteAsyncOnce"
    /\ pc = "check"
    /\ IF attempt < maxAttempts
       THEN IF ctxErr # "none"
            THEN /\ callFailure(CtxError(ctxErr))
                 /\ ret' = CtxError(ctxErr)
                 /\ pc' = "done"
            ELSE /\ pc' = "call"
                 /\ UNCHANGED <<ret, once, onSuccessCalls, onFailureCalls>>
       ELSE /\ callFailure(lastErr)
            /\ ret' = lastErr
            /\ pc' = "done"
    /\ UNCHANGED <<notRetry, cfgVars, ctxErr, attempt, results, lastErr, onRetryLog, waitLog,
                   waitedOut, cancelInWait>>

\* fn() and the decisions on its result
AsyncOnce_Call ==
    /\ entry = "ExecuteAsyncOnce"
    /\ pc = "call"
    /\ \E r \in TaskResults :
         /\ results' = Append(results, r)
         /\ IF r = "nil"
            THEN /\ callSuccess
                 /\ ret' = NoErr
                 /\ pc' = "done"
                 /\ UNCHANGED <<attempt, lastErr, waitLog>>
            ELSE /\ lastErr' = TaskErr(r, Len(results) + 1)
                 /\ UNCHANGED <<ret, once, onSuccessCalls, onFailureCalls>>
                 /\ IF attempt < maxAttempts - 1
                    THEN /\ waitLog' = Append(waitLog, strategy.d)
                         /\ pc' = "select"
                         /\ UNCHANGED attempt
                    ELSE /\ attempt' = attempt + 1
                         /\ pc' = "check"
                         /\ UNCHANGED waitLog
    /\ UNCHANGED <<notRetry, cfgVars, ctxErr, onRetryLog, waitedOut, cancelInWait>>

\* case <-time.After(conf.retryDelay)
AsyncOnce_AfterWait ==
    /\ entry = "ExecuteAsyncOnce"
    /\ pc = "wokeTimer"
    /\ attempt' = attempt + 1
    /\ waitedOut' = waitedOut + 1
    /\ pc' = "check"
    /\ UNCHANGED <<notRetry, cfgVars, ctxErr, results, lastErr, ret, once, onSuccessCalls,
                   onFailureCalls, onRetryLog, waitLog, cancelInWait>>

\* case <-ctx.Done(): callFailure(ctx.Err()); return
AsyncOnce_WaitCancelled ==
    /\ entry = "ExecuteAsyncOnce"
    /\ pc = "wokeDone"
    /\ callFailure(CtxError(ctxErr))
    /\ ret' = CtxError(ctxErr)
    /\ pc' = "done"
    /\ UNCHANGED <<notRetry, cfgVars, ctxErr, attempt, results, lastErr, onRetryLog, waitLog,
                   waitedOut, cancelInWait>>

AsyncOnceNext ==
    \/ AsyncOnce_Check
    \/ AsyncOnce_Call
    \/ AsyncOnce_AfterWait
    \/ AsyncOnce_WaitCancelled

(***************************************************************************)
(* ExecuteAsyncT (util/retry/async.go) and ExecuteAsync (retry/async.go):   *)
(* fixed delay, no check before the attempt, callbacks called directly.     *)
(***************************************************************************)
\* the onFailure the loop holds is nil: ExecuteAsync of util/retry/async.go
\* always hands a wrapper to ExecuteAsyncT, the other two hand on the caller's
HoldsNilOnFailure == entry # "ExecuteAsyncViaT" /\ onFailureNil

\* if onFailure != nil { onFailure(e) }
GuardedOnFailure(e) ==
    onFailureCalls' = IF onFailureNil THEN onFailureCalls
                      ELSE Append(onFailureCalls, e)

\* loop head; after the loop: onFailure(err), with no nil check
ExecuteAsyncT_Loop ==
    /\ entry \in FixedAsyncEntries
    /\ pc = "check"
    /\ IF attempt < maxAttempts
       THEN pc' = "call" /\ UNCHANGED <<ret, onFailureCalls>>
       ELSE IF HoldsNilOnFailure
       THEN pc' = "fault" /\ UNCHANGED <<ret, onFailureCalls>>
       ELSE /\ GuardedOnFailure(lastErr)
            /\ ret' = lastErr
            /\ pc' = "done"
    /\ UNCHANGED <<notRetry, cfgVars, ctxErr, attempt, results, lastErr, once, onSuccessCalls,
                   onRetryLog, waitLog, waitedOut, cancelInWait>>

\* task() and the decisions on its result
ExecuteAsyncT_Call ==
    /\ entry \in FixedAsyncEntries
    /\ pc = "call"
    /\ \E r \in TaskResults :
         /\ results' = Append(results, r)
         /\ lastErr' = IF r = "nil" THEN NoErr ELSE TaskErr(r, Len(results) + 1)
         /\ IF r = "nil"
            THEN /\ onSuccessCalls' = IF onSuccessNil THEN onSuccessCalls
                                      ELSE onSuccessCalls + 1
                 /\ ret' = NoErr
                 /\ pc' = "done"
                 /\ UNCHANGED <<attempt, waitLog>>
            ELSE /\ UNCHANGED <<ret, onSuccessCalls>>
                 /\ IF attempt < maxAttempts - 1
                    THEN /\ waitLog' = Append(waitLog, strategy.d)
                         /\ pc' = "select"
                         /\ UNCHANGED attempt
                    ELSE /\ attempt' = attempt + 1
                         /\ pc' = "check"
                         /\ UNCHANGED waitLog
    /\ UNCHANGED <<notRetry, cfgVars, ctxErr, once, onFailureCalls, onRetryLog, waitedOut,
                   cancelInWait>>

\* case <-time.After(conf.retryDelay)
ExecuteAsyncT_AfterWait ==
    /\ entry \in FixedAsyncEntries
    /\ pc = "wokeTimer"
    /\ attempt' = attempt + 1
    /\ waitedOut' = waitedOut + 1
    /\ pc' = "check"
    /\ UNCHANGED <<notRetry, cfgVars, ctxErr, results, lastErr, ret, once, onSuccessCalls,
                   onFailureCalls, onRetryLog, waitLog, cancelInWait>>

\* case <-ctx.Done(): if onFailure != nil { onFailure(ctx.Err()) }; return
ExecuteAsyncT_WaitCancelled ==
    /\ entry \in FixedAsyncEntries
    /\ pc = "wokeDone"
    /\ GuardedOnFailure(CtxError(ctxErr))
    /\ ret' = CtxError(ctxErr)
    /\ pc' = "done"
    /\ UNCHANGED <<notRetry, cfgVars, ctxErr, attempt, results, lastErr, once, onSuccessCalls,
                   onRetryLog, waitLog, waitedOut, cancelInWait>>

ExecuteAsyncTNext ==
    \/ ExecuteAsyncT_Loop
    \/ ExecuteAsyncT_Call
    \/ ExecuteAsyncT_AfterWait
    \/ ExecuteAsyncT_WaitCancelled

(***************************************************************************)
(* Specification of the retry executors.                                    *)
(***************************************************************************)
RetryNext ==
    \/ RetryLoopNext
    \/ ExecuteSyncTNext
    \/ AsyncOnceNext
    \/ ExecuteAsyncTNext
    \/ RetrySelect
    \/ RetryTimerFired
    \/ RetryCancel
    \/ RetryTimeout

InitRetry ==
    RetryInit /\ SchedIdle /\ AfterIdle /\ PureIdle /\ PipeIdle /\ CacheIdle

SpecRetry == InitRetry /\ [][RetryNext]_vars

(***************************************************************************)
(* Properties of the retry executors.                                       *)
(***************************************************************************)
AllFailed == \A i \in 1..Len(results) : results[i] # "nil"
Callbacks == onSuccessCalls + Len(onFailureCalls)

\* C1: ExecuteAsync (retryLoop-based and sync.Once-based) with both callbacks
\* given: at no moment more than one callback invocation has happened, and when
\* the executor has concluded exactly one of onSuccess / onFailure has been
\* invoked, exactly once, whatever the task did and however cancellation and
\* timeout interleaved.
C1_ExactlyOneCallback ==
    (entry \in AsyncEntries /\ ~onSuccessNil /\ ~onFailureNil) =>
        /\ Callbacks <= 1
        /\ pc = "done" => Callbacks = 1
        /\ (pc = "done" /\ onSuccessCalls = 1) => ret = NoErr
        /\ (pc = "done" /\ onSuccessCalls = 0) => onFailureCalls = <<ret>>

\* C1 witness: an asynchronous run cancelled during a wait after two failed
\* attempts has reported the cancellation to onFailure, once.
C1_Witness ==
    /\ entry \in AsyncEntries
    /\ pc = "done"
    /\ cancelInWait = 2
    /\ onSuccessCalls = 0
    /\ onFailureCalls = <<CtxError("Canceled")>>

\* C2: ExecuteSync with MaxAttempts = k, context never done, task failing on
\* every invocation: the task was invoked exactly k times and the result is the
\* error of the k-th invocation.
C2_AlwaysFailingTask ==
    (entry = "ExecuteSync" /\ pc = "done" /\ ctxErr = "none" /\ AllFailed) =>
        /\ Len(results) = maxAttempts
        /\ ret = TaskErr(results[maxAttempts], maxAttempts)

\* C2 witness: three attempts allowed, three failures, the run is over.
C2_Witness ==
    /\ entry = "ExecuteSync"
    /\ pc = "done"
    /\ ctxErr = "none"
    /\ maxAttempts = 3
    /\ Len(results) = 3
    /\ AllFailed

\* C3: ExecuteSync with MaxAttempts = k and the context never done: the task
\* is never invoked again after a success, the loop does not stop on a failure
\* while attempts remain, and a run whose m-th invocation (m <= k) succeeded
\* returns nil.
C3_SucceedsOnAttemptM ==
    entry = "ExecuteSync" =>
        /\ \A i \in 1..(Len(results) - 1) : results[i] # "nil"
        /\ (pc = "done" /\ ctxErr = "none") =>
              /\ Len(results) <= maxAttempts
              /\ Len(results) < maxAttempts => ~AllFailed
              /\ ~AllFailed => ret = NoErr

\* C3 witness: two failures, then a success on the third of three attempts.
C3_Witness ==
    /\ entry = "ExecuteSync"
    /\ pc = "done"
    /\ ctxErr = "none"
    /\ maxAttempts = 3
    /\ Len(results) = 3
    /\ results[3] = "nil"
    /\ ret = NoErr

\* C10: ExecuteSync (retryLoop and ExecuteSyncT): once the context became done
\* while the executor was blocked in a backoff wait, the task is not invoked
\* again, that wait is not counted as finished, fewer than k invocations were
\* made, and the call returns the context's error.
C10_CancelDuringWait ==
    (entry \in {"ExecuteSync", "ExecuteSyncT"} /\ cancelInWait >= 0) =>
        /\ Len(results) = cancelInWait
        /\ Len(results) < maxAttempts
        /\ waitedOut = Len(waitLog) - 1
        /\ pc = "done" => ret = CtxError(ctxErr)

\* C10 witness: ExecuteSyncT cancelled in the wait after its second failure.
C10_Witness ==
    /\ entry = "ExecuteSyncT"
    /\ pc = "done"
    /\ cancelInWait = 2
    /\ ret = CtxError("Canceled")

\* C11: retryLoop (ExecuteSync, ExecuteAsync, ExecuteSyncWithPredicate): when
\* the context is already done at the beginning of an attempt, the step the loop
\* takes starts no task invocation and concludes with the context's error; so a
\* call made with an already-cancelled context makes zero invocations and
\* returns context.Canceled.
C11_NoAttemptWhenContextDone ==
    [][(entry \in RetryLoopEntries /\ pc = "check" /\ attempt < maxAttempts
            /\ ctxErr # "none") =>
         /\ results' = results
         /\ pc' \in {"callback", "done"}
         /\ ret' = CtxError(ctxErr)]_vars

\* C11 witness: a call whose context was cancelled before the first attempt
\* is over with no invocation and context.Canceled.
C11_Witness ==
    /\ entry \in RetryLoopEntries
    /\ ctxAtEntry = "Canceled"
    /\ pc = "done"
    /\ attempt = 0
    /\ results = <<>>
    /\ ret = CtxError("Canceled")

\* C12: the fixed-delay executors ExecuteSync / ExecuteSyncT (sync.go) and
\* ExecuteAsync / ExecuteAsyncT (async.go), called with a context that is
\* already cancelled, never invoke the task, and when they are over they have
\* reported context.Canceled: as the return value, respectively as the one
\* argument onFailure was called with.
C12_FixedDelayAlreadyCancelled ==
    (entry \in {"ExecuteSyncT", "ExecuteAsyncT", "ExecuteAsyncViaT"}
        /\ ctxAtEntry = "Canceled") =>
        /\ results = <<>>
        /\ pc = "done" => ret = CtxError("Canceled")
        /\ (pc = "done" /\ entry # "ExecuteSyncT" /\ ~onFailureNil) =>
               onFailureCalls = <<CtxError("Canceled")>>

\* the caller's predicate answers false for the error of the i-th invocation:
\* its own predicate "Never" for every error, RetryableError for an error
\* without a marker
Rejected(i) ==
    /\ results[i] # "nil"
    /\ \/ shouldRetry = "Never"
       \/ shouldRetry = "RetryableError" /\ results[i] = "fatal"

\* C13: ExecuteSyncWithPredicate: a task error the predicate rejects ends the
\* call at once.  It is the last invocation (its number is the number of
\* invocations made), the call is over and returns that very error, and no wait
\* and no OnRetry call was made for it: both were made only for the failures
\* before it.
C13_PredicateRejectsAtOnce ==
    entry = "ExecuteSyncWithPredicate" =>
        \A i \in 1..Len(results) :
            Rejected(i) =>
               /\ i = Len(results)
               /\ pc = "done"
               /\ ret = TaskErr(results[i], i)
               /\ Len(waitLog) = i - 1
               /\ waitedOut = i - 1
               /\ Len(onRetryLog) = IF onRetryNil THEN 0 ELSE i - 1

\* C13 witness: the second of three allowed attempts returned an error that
\* RetryableError rejects, after a first error that it accepts.
C13_Witness ==
    /\ entry = "ExecuteSyncWithPredicate"
    /\ shouldRetry = "RetryableError"
    /\ maxAttempts = 3
    /\ ~onRetryNil
    /\ results = <<"temp", "fatal">>
    /\ pc = "done"
    /\ ret = TaskErr("fatal", 2)

\* C14: two retry modes.  ExecuteSync, which has no predicate, goes on after
\* every kind of task error: with the context never done, a call that ended on
\* a failure has made all MaxAttempts invocations.  ExecuteSyncWithPredicate
\* called with a nil predicate runs with RetryableError: a task whose error
\* carries no marker is invoked exactly once and that error is returned.
C14_TwoRetryModes ==
    /\ (entry = "ExecuteSync" /\ pc = "done" /\ ctxErr = "none"
            /\ Len(results) > 0 /\ results[Len(results)] # "nil") =>
           /\ Len(results) = maxAttempts
           /\ ret = TaskErr(results[maxAttempts], maxAttempts)
    /\ (entry = "ExecuteSyncWithPredicate" /\ shouldRetry = "nil"
            /\ Len(results) > 0 /\ results[1] = "fatal") =>
           /\ results = <<"fatal">>
           /\ pc = "done"
           /\ ret = TaskErr("fatal", 1)
           /\ waitLog = <<>>

\* C14 witness: ExecuteSyncWithPredicate with a nil predicate and three
\* attempts allowed is over after one invocation that returned a marker-less
\* error.
C14_Witness ==
    /\ entry = "ExecuteSyncWithPredicate"
    /\ shouldRetry = "nil"
    /\ maxAttempts = 3
    /\ ctxErr = "none"
    /\ results = <<"fatal">>
    /\ pc = "done"
    /\ ret = TaskErr("fatal", 1)

\* C15: retryLoop with Config.Timeout > 0.  Once the timeout has expired, no
\* task invocation is started any more (an attempt that had passed its context
\* check before the expiry still makes its invocation), and a loop that stops on
\* the expired timeout, at the check before an attempt or in a backoff wait,
\* returns the deadline-exceeded error, which is not context.Canceled.
C15_TimeoutStopsLoop ==
    [][(entry \in RetryLoopEntries /\ ctxErr = "DeadlineExceeded") =>
         /\ timeoutSet
         /\ pc # "call" => results' = results
         /\ (pc = "wokeDone" \/ (pc = "check" /\ attempt < maxAttempts)) =>
               /\ pc' \in {"callback", "done"}
               /\ ret' = CtxError("DeadlineExceeded")
               /\ ret' # CtxError("Canceled")]_vars

\* C15 witness: the timeout expired during the wait after the second failed
\* attempt and the call returned deadline-exceeded.
C15_Witness ==
    /\ entry = "ExecuteSync"
    /\ timeoutSet
    /\ maxAttempts = 3
    /\ cancelInWait = 2
    /\ ctxErr = "DeadlineExceeded"
    /\ pc = "done"
    /\ Len(results) = 2
    /\ ret = CtxError("DeadlineExceeded")

\* C16: ExecuteAsyncT (util/retry/async.go) and ExecuteAsync (retry/async.go)
\* tolerate nil callbacks on every path: whatever callbacks are nil and
\* whatever the outcome of the loop, the goroutine never faults, and a nil
\* callback is simply not called.
C16_NilCallbacksTolerated ==
    entry \in {"ExecuteAsyncT", "ExecuteAsyncFailureOnly"} =>
        /\ pc # "fault"
        /\ onSuccessNil => onSuccessCalls = 0
        /\ onFailureNil => onFailureCalls = <<>>

\* C17: retryLoop: the wait made after the n-th failed attempt (n counted from
\* 1) lasts BackoffStrategy(n); so a task that fails twice and then succeeds
\* under MaxAttempts = 3 and FixedBackoff(d) is invoked 3 times and has waited
\* 2*d in all.
C17_WaitIsBackoffOfAttempt ==
    entry \in RetryLoopEntries =>
        /\ \A n \in 1..Len(waitLog) : waitLog[n] = BackoffStrategy(strategy, n)
        /\ (maxAttempts = 3 /\ strategy.kind = "Fixed" /\ pc = "done"
               /\ Len(results) = 3 /\ results[3] = "nil") =>
              /\ Len(waitLog) = 2
              /\ waitLog[1] + waitLog[2] >= 2 * strategy.d

\* C33: retryLoop with OnRetry set and a deterministic strategy (Fixed,
\* Linear, None): the nextWait handed to OnRetry before a retry is the
\* duration of the wait the loop then makes before the next attempt.
C33_OnRetryReportsTheWait ==
    (entry \in RetryLoopEntries /\ ~onRetryNil) =>
        \A i \in 1..Len(onRetryLog) :
            /\ i <= Len(waitLog)
            /\ onRetryLog[i][3] = waitLog[i]

\* C35: for every value WithSyncMaxRetries / WithAsyncMaxRetries accept (zero
\* and negative numbers included) ExecuteSyncT returns a nil error only if an
\* invocation of the task returned nil, and ExecuteAsyncT calls onFailure only
\* with a non-nil error.
C35_SuccessOnlyForASuccess ==
    /\ (entry = "ExecuteSyncT" /\ pc = "done" /\ ret = NoErr) =>
          \E i \in 1..Len(results) : results[i] = "nil"
    /\ entry \in FixedAsyncEntries =>
          \A i \in 1..Len(onFailureCalls) : onFailureCalls[i] # NoErr

\* C34: in retryLoop and ExecuteSyncT the i-th wait begins after the i-th
\* invocation of the task and is over before the next one; no wait follows a
\* successful invocation or the invocation numbered MaxAttempts; OnRetry, when
\* set, has been invoked once per wait; and an always-failing task with
\* MaxAttempts = k >= 1, no retry predicate and the context never done ends
\* with k invocations, k-1 waits and k-1 OnRetry invocations.
C34_WaitsOnlyBetweenAttempts ==
    (entry \in RetryLoopEntries \cup {"ExecuteSyncT"}) =>
        /\ Len(waitLog) <= Len(results)
        /\ results # <<>> => Len(waitLog) >= Len(results) - 1
        /\ (results # <<>> /\ Len(waitLog) = Len(results)) =>
              /\ pc = "done" => ctxErr # "none"
              /\ Len(results) < maxAttempts
              /\ results[Len(results)] # "nil"
        /\ ~onRetryNil => Len(onRetryLog) = Len(waitLog)
        /\ (pc = "done" /\ ctxErr = "none" /\ AllFailed /\ maxAttempts >= 1
               /\ entry # "ExecuteSyncWithPredicate") =>
              /\ Len(results) = maxAttempts
              /\ Len(waitLog) = maxAttempts - 1
              /\ waitedOut = maxAttempts - 1

\* three attempts allowed, three failures, two waits and two OnRetry calls
C34_Witness ==
    /\ entry = "ExecuteSync"
    /\ ~onRetryNil
    /\ pc = "done"
    /\ ctxErr = "none"
    /\ maxAttempts = 3
    /\ Len(results) = 3
    /\ AllFailed
    /\ Len(waitLog) = 2
    /\ Len(onRetryLog) = 2

(***************************************************************************)
(* Every (scheduler/every.go) and the Scheduler (scheduler/scheduler.go,    *)
(* errgroup revision; util/scheduler/scheduler.go, WaitGroup revision).     *)
(***************************************************************************)
JobNames == {"A", "B"}

\* job lists AddJob can build: insertion order, duplicates allowed
JobLists == UNION {[1..n -> JobNames] : n \in 0..NJobs}

NoRuns == [n \in JobNames |-> 0]

\* a callback invocation that has not begun / that has returned
IdleInv == [phase |-> "none", launched |-> 0, job |-> <<>>, runs |-> NoRuns,
            succ |-> 0, logged |-> 0, success |-> TRUE, groupErr |-> 0]
ReturnedInv == [IdleInv EXCEPT !.phase = "returned"]

\* a callback invocation at its first statement
StartInv ==
    [IdleInv EXCEPT !.phase = IF cbKind = "callback" THEN "running"
                              ELSE IF Len(jobs) = 0 THEN "wait" ELSE "launch",
                    !.job = [i \in 1..Len(jobs) |-> "idle"]]

Active(t) == inv[t].phase \notin {"none", "returned"}

EveryInit ==
    /\ cbKind \in {"callback", "runJobs"}
    /\ IF cbKind = "runJobs"
       THEN /\ impl \in {"errgroup", "waitgroup"}
            /\ jobs \in JobLists
            /\ onSuccessKind \in {"nil", "plain", "cancels"}
       ELSE /\ impl = "none"
            /\ jobs = <<>>
            /\ onSuccessKind = "nil"
    /\ sctxDone = FALSE
    /\ everyPc = "select"
    /\ tickPending = FALSE
    /\ ticksElapsed = 0
    /\ tick = 0
    /\ inv = [t \in 1..MaxTicks |-> IdleInv]
    /\ panics = 0
    /\ panicLogs = 0
    /\ cancelledInCall = 0

\* a goroutine blocked in the select is woken by the closing of ctx.Done()
CancelWake(p) == IF p = "blocked" THEN "wokeDone" ELSE p

\* select { case <-ctx.Done(): ... case <-ticker.C: ... } on entry: a ready case
\* is taken, any of them when both are ready; otherwise the goroutine blocks
Every_Select ==
    /\ everyPc = "select"
    /\ \/ /\ sctxDone
          /\ everyPc' = "wokeDone"
          /\ UNCHANGED tickPending
       \/ /\ tickPending
          /\ everyPc' = "wokeTick"
          /\ tickPending' = FALSE
       \/ /\ ~sctxDone
          /\ ~tickPending
          /\ everyPc' = "blocked"
          /\ UNCHANGED tickPending
    /\ UNCHANGED <<notSched, schedCfg, sctxDone, ticksElapsed, tick, inv, panics,
                   panicLogs, cancelledInCall>>

\* an interval elapses: the tick is handed to the blocked goroutine, or buffered
\* in ticker.C (capacity 1: a tick that finds the buffer full is dropped)
TickerFires ==
    /\ everyPc \notin {"idle", "exited", "crashed"}
    /\ ticksElapsed < MaxTicks
    /\ ticksElapsed' = ticksElapsed + 1
    /\ IF everyPc = "blocked"
       THEN everyPc' = "wokeTick" /\ UNCHANGED tickPending
       ELSE tickPending' = TRUE /\ UNCHANGED everyPc
    /\ UNCHANGED <<notSched, schedCfg, sctxDone, tick, inv, panics, panicLogs,
                   cancelledInCall>>

\* the owner of the token cancels it
SchedCancel ==
    /\ everyPc \notin {"idle", "exited", "crashed"}
    /\ ~sctxDone
    /\ sctxDone' = TRUE
    /\ everyPc' = CancelWake(everyPc)
    /\ UNCHANGED <<notSched, schedCfg, tickPending, ticksElapsed, tick, inv, panics,
                   panicLogs, cancelledInCall>>

\* variant: the cancellation case goes on with the loop
Every_Return_Continue ==
    /\ everyPc = "wokeDone"
    /\ everyPc' = "select"
    /\ UNCHANGED <<notSched, schedCfg, sctxDone, tickPending, ticksElapsed, tick, inv,
                   panics, panicLogs, cancelledInCall>>

\* case <-ctx.Done(): return
Every_Return ==
    /\ everyPc = "wokeDone"
    /\ everyPc' = "exited"
    /\ UNCHANGED <<notSched, schedCfg, sctxDone, tickPending, ticksElapsed, tick, inv,
                   panics, panicLogs, cancelledInCall>>

\* variant: the callback is started on a goroutine of its own
DispatchPc_Detached == "select"

\* the loop runs the callback itself: it is inside the call until it returns
DispatchPc == "incall"

\* case <-ticker.C: the callback is invoked
Every_Dispatch ==
    /\ everyPc = "wokeTick"
    /\ tick < MaxTicks
    /\ tick' = tick + 1
    /\ inv' = [inv EXCEPT ![tick + 1] = StartInv]
    /\ everyPc' = DispatchPc
    /\ UNCHANGED <<notSched, schedCfg, sctxDone, tickPending, ticksElapsed, panics,
                   panicLogs, cancelledInCall>>

\* the loop goes back to the select when the call it is inside of returns
ReturnPc(p) == IF p = "incall" THEN "select" ELSE p

\* variant: a tick in which a job failed ends the loop
Callback_Return_StopOnError(t) ==
    /\ \/ cbKind = "callback" /\ inv[t].phase = "running"
       \/ cbKind = "runJobs" /\ inv[t].phase = "finished"
    /\ inv' = [inv EXCEPT ![t] = [ReturnedInv EXCEPT !.logged = inv[t].logged]]
    /\ everyPc' = IF inv[t].logged > 0 THEN "exited" ELSE ReturnPc(everyPc)
    /\ UNCHANGED <<notSched, schedCfg, sctxDone, tickPending, ticksElapsed, tick,
                   panics, panicLogs, cancelledInCall>>

\* the callback (a caller's function, or runJobs) returns; the "job failed"
\* lines it logged stay in the log
Callback_Return(t) ==
    /\ \/ cbKind = "callback" /\ inv[t].phase = "running"
       \/ cbKind = "runJobs" /\ inv[t].phase = "finished"
    /\ inv' = [inv EXCEPT ![t] = [ReturnedInv EXCEPT !.logged = inv[t].logged]]
    /\ everyPc' = ReturnPc(everyPc)
    /\ UNCHANGED <<notSched, schedCfg, sctxDone, tickPending, ticksElapsed, tick,
                   panics, panicLogs, cancelledInCall>>

\* variant: no recover, the panic ends the loop
AfterPanicPc_Unrecovered(p) == "exited"

\* defer func() { if r := recover(); r != nil { log.Printf(...) } }()
AfterPanicPc(p) == ReturnPc(p)

\* the callback panics; the deferred function recovers and logs
Callback_Panic(t) ==
    /\ cbKind = "callback"
    /\ inv[t].phase = "running"
    /\ panics < MaxTicks
    /\ panics' = panics + 1
    /\ panicLogs' = panicLogs + 1
    /\ inv' = [inv EXCEPT ![t] = ReturnedInv]
    /\ everyPc' = AfterPanicPc(everyPc)
    /\ UNCHANGED <<notSched, schedCfg, sctxDone, tickPending, ticksElapsed, tick,
                   cancelledInCall>>

\* the callback cancels the token of its own loop
Callback_Cancel(t) ==
    /\ cbKind = "callback"
    /\ inv[t].phase = "running"
    /\ ~sctxDone
    /\ sctxDone' = TRUE
    /\ cancelledInCall' = t
    /\ everyPc' = CancelWake(everyPc)
    /\ UNCHANGED <<notSched, schedCfg, tickPending, ticksElapsed, tick, inv, panics,
                   panicLogs>>

(***************************************************************************)
(* Scheduler.runJobs.                                                       *)
(***************************************************************************)
\* variant: a job is skipped once a job of the tick has failed
MayLaunch_FailFast(r) == \A i \in 1..Len(r.job) : r.job[i] # "err"

\* for _, j := range s.jobs { group.Go(...) }: every job is launched
MayLaunch(r) == TRUE

\* group.Go / wg.Add(1); go func(): the next job of the range loop gets its
\* goroutine
runJobs_Go(t) ==
    /\ everyPc # "crashed"
    /\ inv[t].phase = "launch"
    /\ LET n == inv[t].launched + 1 IN
       inv' = [inv EXCEPT ![t].launched = n,
                          ![t].job[n] = IF MayLaunch(inv[t]) THEN "spawned"
                                        ELSE "skipped",
                          ![t].phase = IF n = Len(jobs) THEN "wait" ELSE "launch"]
    /\ UNCHANGED <<notSched, schedCfg, sctxDone, everyPc, tickPending, ticksElapsed,
                   tick, panics, panicLogs, cancelledInCall>>

\* the goroutine of a job calls job.Run
Job_Run(t, i) ==
    /\ everyPc # "crashed"
    /\ i \in 1..Len(inv[t].job)
    /\ inv[t].job[i] = "spawned"
    /\ inv' = [inv EXCEPT ![t].job[i] = "running",
                          ![t].runs[jobs[i]] = @ + 1]
    /\ UNCHANGED <<notSched, schedCfg, sctxDone, everyPc, tickPending, ticksElapsed,
                   tick, panics, panicLogs, cancelledInCall>>

\* job.Run returns; an error is logged and recorded (the first error of the
\* errgroup, success.Store(false) of the WaitGroup revision)
Job_Return(t, i) ==
    /\ everyPc # "crashed"
    /\ i \in 1..Len(inv[t].job)
    /\ inv[t].job[i] = "running"
    /\ \E r \in {"ok", "err"} :
         inv' = [inv EXCEPT ![t].job[i] = r,
                            ![t].logged = IF r = "err" THEN @ + 1 ELSE @,
                            ![t].success = IF r = "err" /\ impl = "waitgroup"
                                           THEN FALSE ELSE @,
                            ![t].groupErr = IF r = "err" /\ impl = "errgroup" /\ @ = 0
                                            THEN i ELSE @]
    /\ UNCHANGED <<notSched, schedCfg, sctxDone, everyPc, tickPending, ticksElapsed,
                   tick, panics, panicLogs, cancelledInCall>>

\* job.Run panics in the WaitGroup revision.  The job runs on a goroutine of
\* its own, which defers wg.Done() and nothing that recovers: the recover of
\* Every guards the goroutine of the loop only, so the panic ends the process
\* ("crashed"), with every goroutine in it.
Job_Panic(t, i) ==
    /\ everyPc # "crashed"
    /\ impl = "waitgroup"
    /\ i \in 1..Len(inv[t].job)
    /\ inv[t].job[i] = "running"
    /\ inv' = [inv EXCEPT ![t].job[i] = "panicked"]
    /\ everyPc' = "crashed"
    /\ UNCHANGED <<notSched, schedCfg, sctxDone, tickPending, ticksElapsed, tick,
                   panics, panicLogs, cancelledInCall>>

\* the context handed to job.Run is done: the errgroup revision hands out the
\* context of errgroup.WithContext, which is cancelled with the scheduler's
\* token and when the first job of the group returns an error; the WaitGroup
\* revision hands out the scheduler's own context
JobCtxDone(r) == sctxDone \/ (impl = "errgroup" /\ r.groupErr # 0)

\* variant: the outcome of the jobs is not looked at
TickSucceeded_Always(r) == r.launched >= 0

\* group.Wait() == nil / success.Load()
TickSucceeded(r) == IF impl = "errgroup" THEN r.groupErr = 0 ELSE r.success

\* group.Wait() / wg.Wait() returns when every goroutine is done; onSuccess is
\* called if the tick succeeded and onSuccess is not nil
runJobs_Wait(t) ==
    /\ everyPc # "crashed"
    /\ inv[t].phase = "wait"
    /\ \A i \in 1..Len(inv[t].job) : inv[t].job[i] \in {"ok", "err", "skipped"}
    /\ IF TickSucceeded(inv[t]) /\ onSuccessKind # "nil"
       THEN inv' = [inv EXCEPT ![t].phase = "onSuccess", ![t].succ = @ + 1]
       ELSE inv' = [inv EXCEPT ![t].phase = "finished"]
    /\ UNCHANGED <<notSched, schedCfg, sctxDone, everyPc, tickPending, ticksElapsed,
                   tick, panics, panicLogs, cancelledInCall>>

\* onSuccess runs and returns; it may cancel the token of the scheduler
OnSuccess_Return(t) ==
    /\ everyPc # "crashed"
    /\ inv[t].phase = "onSuccess"
    /\ inv' = [inv EXCEPT ![t].phase = "finished"]
    /\ IF onSuccessKind = "cancels"
       THEN /\ sctxDone' = TRUE
            /\ everyPc' = CancelWake(everyPc)
            /\ cancelledInCall' = IF sctxDone THEN cancelledInCall ELSE t
       ELSE UNCHANGED <<sctxDone, everyPc, cancelledInCall>>
    /\ UNCHANGED <<notSched, schedCfg, tickPending, ticksElapsed, tick, panics,
                   panicLogs>>

SchedNext ==
    \/ Every_Select
    \/ TickerFires
    \/ SchedCancel
    \/ Every_Return
    \/ Every_Dispatch
    \/ \E t \in 1..MaxTicks : Callback_Return(t)
    \/ \E t \in 1..MaxTicks : Callback_Panic(t)
    \/ \E t \in 1..MaxTicks : Callback_Cancel(t)
    \/ \E t \in 1..MaxTicks : runJobs_Go(t)
    \/ \E t \in 1..MaxTicks, i \in 1..NJobs : Job_Run(t, i)
    \/ \E t \in 1..MaxTicks, i \in 1..NJobs : Job_Return(t, i)
    \/ \E t \in 1..MaxTicks, i \in 1..NJobs : Job_Panic(t, i)
    \/ \E t \in 1..MaxTicks : runJobs_Wait(t)
    \/ \E t \in 1..MaxTicks : OnSuccess_Return(t)

InitSched ==
    EveryInit /\ RetryIdle /\ AfterIdle /\ PureIdle /\ PipeIdle /\ CacheIdle

SpecSched == InitSched /\ [][SchedNext]_vars

(***************************************************************************)
(* Properties of Every and the Scheduler.                                   *)
(***************************************************************************)
Multiplicity(n) == Cardinality({i \in 1..Len(jobs) : jobs[i] = n})
JobsReturned(r) == \A i \in 1..Len(r.job) : r.job[i] \in {"ok", "err"}
SomeJobFailed(r) == \E i \in 1..Len(r.job) : r.job[i] = "err"

\* C4: in every tick of runJobs onSuccess is invoked at most once, only after
\* every job of the tick has been launched and has returned and none returned
\* an error; and when the tick is over it has been invoked exactly once if no
\* job failed (no jobs at all included) and onSuccess is not nil, and not at
\* all if some job failed.
C4_OnSuccessIffAllJobsSucceed ==
    cbKind = "runJobs" =>
        \A t \in 1..MaxTicks :
            LET r == inv[t] IN
            /\ r.succ <= 1
            /\ r.succ = 1 => /\ r.launched = Len(jobs)
                             /\ JobsReturned(r)
                             /\ ~SomeJobFailed(r)
            /\ r.phase = "finished" =>
                  (r.succ = 1 <=> (~SomeJobFailed(r) /\ onSuccessKind # "nil"))

\* C4 witness: the second tick of a scheduler with two jobs is over, both jobs
\* succeeded and onSuccess was called once.
C4_Witness ==
    /\ cbKind = "runJobs"
    /\ Len(jobs) = 2
    /\ tick = 2
    /\ inv[2].phase = "finished"
    /\ inv[2].job = <<"ok", "ok">>
    /\ inv[2].succ = 1

\* C5: in every tick Run is invoked on each registered job at most as often as
\* the job is registered, and once the jobs of the tick are awaited out exactly
\* that often (once per registration), whatever the other jobs returned.
C5_EveryJobRunsOncePerTick ==
    cbKind = "runJobs" =>
        \A t \in 1..MaxTicks : \A n \in JobNames :
            /\ inv[t].runs[n] <= Multiplicity(n)
            /\ inv[t].phase \in {"onSuccess", "finished"} =>
                  inv[t].runs[n] = Multiplicity(n)

\* C5 witness: a job registered twice ran twice in one tick although its first
\* run failed.
C5_Witness ==
    /\ cbKind = "runJobs"
    /\ jobs = <<"A", "A">>
    /\ inv[1].phase = "finished"
    /\ inv[1].job = <<"err", "ok">>
    /\ inv[1].runs["A"] = 2

\* C6: at most one callback invocation of an Every loop is in progress, and no
\* invocation (no job of tick N+1) begins before the previous invocation (every
\* job of tick N, and its onSuccess) has returned.
C6_TicksNeverOverlap ==
    /\ Cardinality({t \in 1..MaxTicks : Active(t)}) <= 1
    /\ \A t \in 2..MaxTicks : inv[t].phase # "none" => inv[t - 1].phase = "returned"
    /\ \A t \in 1..MaxTicks : Active(t) => everyPc \in {"incall", "crashed"}

\* C6 witness: a job of the second tick is running while the next interval has
\* already elapsed (the tick is buffered).
C6_Witness ==
    /\ cbKind = "runJobs"
    /\ tick = 2
    /\ \E i \in 1..Len(inv[2].job) : inv[2].job[i] = "running"
    /\ tickPending

\* C7: when the callback cancels the token during its n-th invocation, the
\* number of invocations begun stays n.
C7_NoInvocationAfterCancel ==
    cancelledInCall > 0 => tick = cancelledInCall

\* C8: every panic of a callback is recovered and logged once, and the loop
\* of Every ends only when its token is cancelled: after a panic it is back at
\* the select, ready for the next tick.
C8_PanicDoesNotEndLoop ==
    /\ panicLogs = panics
    /\ everyPc = "exited" => sctxDone
    /\ (everyPc \notin {"incall", "exited", "idle", "crashed"}) =>
           \A t \in 1..MaxTicks : ~Active(t)

\* C8 witness: the first invocation panicked and the callback is running again,
\* the token not cancelled.
C8_Witness ==
    /\ cbKind = "callback"
    /\ panics = 1
    /\ panicLogs = 1
    /\ tick = 2
    /\ Active(2)
    /\ ~sctxDone

\* C21: a Scheduler whose jobs always succeed and whose onSuccess cancels the
\* scheduler's token on its first call runs exactly one tick: once onSuccess
\* has cancelled the token in the first tick, no further tick begins, so every
\* job has been invoked once and onSuccess once, however long the tick lasted
\* compared with the interval.
C21_OneTickWhenOnSuccessCancels ==
    (cbKind = "runJobs" /\ Len(jobs) = NJobs /\ onSuccessKind = "cancels"
        /\ cancelledInCall = 1) =>
        /\ tick = 1
        /\ \A t \in 2..MaxTicks : inv[t].phase = "none"

\* C22: job errors are never fatal to the Scheduler (errgroup and WaitGroup
\* revisions).  The loop has ended only if the token is cancelled; after a tick
\* in which jobs failed the loop is still running while the token is not
\* cancelled; and the tick that follows a failed tick launches every
\* registered job again and, once its jobs are awaited out, has run each of
\* them once per registration.  (A job that panics is no job error: it ends
\* the process, state "crashed", and is the subject of C37.)
C22_JobErrorsNotFatal ==
    cbKind = "runJobs" =>
        /\ everyPc = "exited" => sctxDone
        /\ \A t \in 1..MaxTicks :
              (inv[t].phase = "returned" /\ inv[t].logged > 0 /\ ~sctxDone) =>
                  everyPc \in {"select", "blocked", "wokeTick", "incall", "crashed"}
        /\ \A t \in 2..MaxTicks :
              (inv[t - 1].logged > 0 /\ inv[t].phase \in {"onSuccess", "finished"}) =>
                  /\ inv[t].launched = Len(jobs)
                  /\ \A n \in JobNames : inv[t].runs[n] = Multiplicity(n)

\* C22 witness: both jobs of the first tick failed, the token is not
\* cancelled, and the second tick has run both jobs again.
C22_Witness ==
    /\ cbKind = "runJobs"
    /\ jobs = <<"A", "B">>
    /\ ~sctxDone
    /\ inv[1].phase = "returned"
    /\ inv[1].logged = 2
    /\ inv[2].phase = "finished"
    /\ inv[2].runs = [n \in JobNames |-> 1]

\* C23: within one tick of the errgroup-based runJobs the failure of a job
\* does not reach its siblings: while the scheduler's token is not cancelled,
\* the context a running job was handed is not done, whatever the other jobs
\* of the tick returned (so a job that fails only on a cancelled context
\* succeeds).
C23_SiblingFailureDoesNotCancel ==
    (cbKind = "runJobs" /\ impl = "errgroup" /\ ~sctxDone) =>
        \A t \in 1..MaxTicks : \A i \in 1..Len(inv[t].job) :
            inv[t].job[i] = "running" => ~JobCtxDone(inv[t])

\* C24: Every skips and coalesces no tick: each interval elapsed before the
\* cancellation leads to exactly one callback invocation.  So whenever the
\* loop, its token not cancelled, is blocked in the select with every earlier
\* invocation returned, the number of invocations equals the number of
\* intervals elapsed, also after an invocation that overran several intervals.
C24_NoTickSkipped ==
    (everyPc = "blocked" /\ ~sctxDone) => tick = ticksElapsed

\* C36: onSuccess is never invoked once the scheduler's token is cancelled,
\* also when the token is cancelled while the jobs of a tick are running and
\* all of them then return success: every step in which an invocation of
\* onSuccess begins starts from a state with the token live.
C36_NoOnSuccessAfterCancel ==
    [][\A t \in 1..MaxTicks : inv'[t].succ > inv[t].succ => ~sctxDone]_vars

\* C37: a panic raised inside a job's Run is recovered and logged by the
\* fault boundary of Every and leaves the scheduler running.
C37_JobPanicContained ==
    \A t \in 1..MaxTicks :
        \A i \in 1..Len(inv[t].job) :
            inv[t].job[i] = "panicked" =>
                /\ panicLogs > 0
                /\ everyPc # "crashed"

(***************************************************************************)
(* After(ctx, duration).Do(callback): a timer raced against the token.      *)
(***************************************************************************)
AfterInit ==
    /\ duration \in 1..MaxDuration
    /\ now = 0
    /\ actxDone = FALSE
    /\ afterPc = "start"
    /\ timerAt = -1
    /\ afterCalls = 0
    /\ calledAt = -1
    /\ cancelEarly = FALSE

\* timer.C holds the time once the delay has elapsed
TimerReady == timerAt >= 0 /\ now >= timerAt

\* timer := time.NewTimer(b.duration)
After_NewTimer ==
    /\ afterPc = "start"
    /\ timerAt' = now + duration
    /\ afterPc' = "select"
    /\ UNCHANGED <<notAfter, duration, now, actxDone, afterCalls, calledAt, cancelEarly>>

\* select { case <-ctx.Done(): ... case <-timer.C: ... } on entry: a ready case
\* is taken, any of them when both are ready; otherwise the goroutine blocks
After_Select ==
    /\ afterPc = "select"
    /\ \/ /\ actxDone
          /\ afterPc' = "wokeDone"
       \/ /\ TimerReady
          /\ afterPc' = "wokeTimer"
       \/ /\ ~actxDone
          /\ ~TimerReady
          /\ afterPc' = "blocked"
    /\ UNCHANGED <<notAfter, duration, now, actxDone, timerAt, afterCalls, calledAt,
                   cancelEarly>>

\* time passes; a timer that fires wakes the goroutine blocked in the select
ClockAdvance ==
    /\ afterPc \notin {"idle", "done"}
    /\ now < MaxNow
    /\ now' = now + 1
    /\ afterPc' = IF afterPc = "blocked" /\ now + 1 >= timerAt THEN "wokeTimer"
                  ELSE afterPc
    /\ UNCHANGED <<notAfter, duration, actxDone, timerAt, afterCalls, calledAt,
                   cancelEarly>>

\* the owner of the token cancels it
AfterCancel ==
    /\ afterPc \notin {"idle", "done"}
    /\ ~actxDone
    /\ actxDone' = TRUE
    /\ cancelEarly' = ~TimerReady
    /\ afterPc' = CancelWake(afterPc)
    /\ UNCHANGED <<notAfter, duration, now, timerAt, afterCalls, calledAt>>

\* case <-timer.C: callback(ctx)
After_Callback ==
    /\ afterPc = "wokeTimer"
    /\ afterCalls' = afterCalls + 1
    /\ calledAt' = now
    /\ afterPc' = "done"
    /\ UNCHANGED <<notAfter, duration, now, actxDone, timerAt, cancelEarly>>

\* case <-ctx.Done(): return
After_Return ==
    /\ afterPc = "wokeDone"
    /\ afterPc' = "done"
    /\ UNCHANGED <<notAfter, duration, now, actxDone, timerAt, afterCalls, calledAt,
                   cancelEarly>>

AfterNext ==
    \/ After_NewTimer
    \/ After_Select
    \/ ClockAdvance
    \/ AfterCancel
    \/ After_Callback
    \/ After_Return

InitAfter ==
    AfterInit /\ RetryIdle /\ SchedIdle /\ PureIdle /\ PipeIdle /\ CacheIdle

SpecAfter == InitAfter /\ [][AfterNext]_vars

(***************************************************************************)
(* Properties of After.                                                     *)
(***************************************************************************)
\* C9: the callback of After is invoked at most once, never before the delay
\* has elapsed, and never when the token was cancelled before the delay had
\* elapsed.
C9_AfterRunsOnceUnlessCancelled ==
    /\ afterCalls <= 1
    /\ afterCalls >= 1 => calledAt >= timerAt
    /\ cancelEarly => afterCalls = 0

(***************************************************************************)
(* Termination of the background tasks of Every and After.  The ticker      *)
(* keeps firing for ever: once MaxTicks intervals have been counted, further *)
(* intervals elapse and further invocations begin without being counted.    *)
(***************************************************************************)
\* ticker.C keeps delivering after the intervals that are counted
TickerKeepsFiring ==
    /\ everyPc \notin {"idle", "exited"}
    /\ ticksElapsed = MaxTicks
    /\ IF everyPc = "blocked"
       THEN everyPc' = "wokeTick" /\ UNCHANGED tickPending
       ELSE tickPending' = TRUE /\ UNCHANGED everyPc
    /\ UNCHANGED <<notSched, schedCfg, sctxDone, ticksElapsed, tick, inv, panics,
                   panicLogs, cancelledInCall>>

\* case <-ticker.C: an invocation beyond the ones that are counted
Every_DispatchUncounted ==
    /\ everyPc = "wokeTick"
    /\ tick = MaxTicks
    /\ inv[MaxTicks].phase = "returned"
    /\ inv' = [inv EXCEPT ![MaxTicks] = StartInv]
    /\ everyPc' = DispatchPc
    /\ UNCHANGED <<notSched, schedCfg, sctxDone, tickPending, ticksElapsed, tick,
                   panics, panicLogs, cancelledInCall>>

\* Every(ctx, d).Do(callback) with a caller's callback, or After(ctx, d).Do
InitLive ==
    /\ \/ EveryInit /\ cbKind = "callback" /\ AfterIdle
       \/ AfterInit /\ SchedIdle
    /\ RetryIdle
    /\ PureIdle
    /\ PipeIdle
    /\ CacheIdle

LiveNext ==
    \/ Every_Select
    \/ TickerFires
    \/ TickerKeepsFiring
    \/ SchedCancel
    \/ Every_Return
    \/ Every_Dispatch
    \/ Every_DispatchUncounted
    \/ \E t \in 1..MaxTicks : Callback_Return(t)
    \/ \E t \in 1..MaxTicks : Callback_Panic(t)
    \/ \E t \in 1..MaxTicks : Callback_Cancel(t)
    \/ AfterNext

\* The goroutines keep running and every callback invocation returns (weak
\* fairness); a select with several ready cases picks among them uniformly at
\* random, so a case that is ready again and again is taken in the end (strong
\* fairness of the cancellation case).
LiveFairness ==
    /\ WF_vars(Every_Select)
    /\ SF_vars(Every_Select /\ everyPc' = "wokeDone")
    /\ WF_vars(Every_Return)
    /\ WF_vars(Every_Dispatch \/ Every_DispatchUncounted)
    /\ WF_vars(\E t \in 1..MaxTicks : Callback_Return(t))
    /\ WF_vars(After_NewTimer \/ After_Select \/ After_Callback \/ After_Return)

SpecLive == InitLive /\ [][LiveNext]_vars /\ LiveFairness

\* C25: no scheduling task outlives cancellation.  Once the token is
\* cancelled, and provided every callback invocation returns, the goroutine of
\* Every eventually leaves its loop and the goroutine of After eventually
\* exits, also when ticks keep arriving while callbacks are slow.
C25_NoTaskOutlivesCancellation ==
    /\ sctxDone ~> everyPc = "exited"
    /\ actxDone ~> afterPc = "done"

\* C25 witness: the loop of Every has exited after the cancellation, a tick
\* that arrived during the last invocation still buffered.
C25_Witness ==
    /\ sctxDone
    /\ everyPc = "exited"
    /\ tick = MaxTicks
    /\ tickPending

(***************************************************************************)
(* Calls of the backoff strategies and of RetryableError                    *)
(* (util/retry/retry.go).  A strategy is built from its parameters and then *)
(* called with an attempt number; the arguments explored stay in the range  *)
(* where the float64 and time.Duration arithmetic of the code is exact.     *)
(***************************************************************************)
AttemptNos == 0..MaxAttemptNo
Durations == 0..MaxBase

\* rand.Int63n(n): panics for n <= 0, else a value of [0, n) taken from the
\* random source
Int63n(n, rnd) == IF n <= 0 THEN Faulted ELSE Returned(rnd % n)

\* TestSuite.RandInt(max): int(ts.RandInt64(int64(max)))
RandInt(max, rnd) == Int63n(max, rnd)

\* TestSuite.RandIntNonZero(max): ts.RandInt(max) + 1
RandIntNonZero(max, rnd) ==
    LET r == RandInt(max, rnd)
    IN  IF r.status = "ok" THEN Returned(r.val + 1) ELSE r

\* TestSuite.RandIntRange(min, max): ts.RandIntNonZero(max-min) + min
RandIntRange(min, max, rnd) ==
    LET r == RandIntNonZero(max - min, rnd)
    IN  IF r.status = "ok" THEN Returned(r.val + min) ELSE r

PureInit ==
    /\ fn \in {"FixedBackoff", "LinearBackoff", "NoBackoff", "ExponentialBackoff",
                "RetryableError", "RandIntRange"}
    /\ arg \in CASE fn \in {"FixedBackoff", "LinearBackoff"} ->
                     [d : Durations, n : AttemptNos]
                [] fn = "NoBackoff" -> [n : AttemptNos]
                [] fn = "ExponentialBackoff" ->
                     [initialDelay : Durations, multiplier : 1..MaxMultiplier,
                      maxDelay : 0..MaxCap, n : AttemptNos, rnd : 0..MaxRand]
                [] fn = "RetryableError" -> [err : ErrorValues]
                [] fn = "RandIntRange" ->
                     [min : (-MaxBase)..MaxBase, max : (-MaxBase)..MaxBase,
                      rnd : 0..MaxRand]
    /\ out = Pending

Call_FixedBackoff ==
    /\ fn = "FixedBackoff"
    /\ out = Pending
    /\ out' = Returned(FixedBackoff(arg.d, arg.n))
    /\ UNCHANGED <<notPure, fn, arg>>

Call_LinearBackoff ==
    /\ fn = "LinearBackoff"
    /\ out = Pending
    /\ out' = Returned(LinearBackoff(arg.d, arg.n))
    /\ UNCHANGED <<notPure, fn, arg>>

Call_NoBackoff ==
    /\ fn = "NoBackoff"
    /\ out = Pending
    /\ out' = Returned(NoBackoff(arg.n))
    /\ UNCHANGED <<notPure, fn, arg>>

Call_ExponentialBackoff ==
    /\ fn = "ExponentialBackoff"
    /\ out = Pending
    /\ out' = ExponentialBackoff(arg.initialDelay, arg.multiplier, arg.maxDelay,
                                 arg.n, arg.rnd)
    /\ UNCHANGED <<notPure, fn, arg>>

Call_RetryableError ==
    /\ fn = "RetryableError"
    /\ out = Pending
    /\ out' = Returned(RetryableErrorByMarkers(arg.err))
    /\ UNCHANGED <<notPure, fn, arg>>

Call_RandIntRange ==
    /\ fn = "RandIntRange"
    /\ out = Pending
    /\ out' = RandIntRange(arg.min, arg.max, arg.rnd)
    /\ UNCHANGED <<notPure, fn, arg>>

PureNext ==
    \/ Call_FixedBackoff
    \/ Call_LinearBackoff
    \/ Call_NoBackoff
    \/ Call_ExponentialBackoff
    \/ Call_RetryableError
    \/ Call_RandIntRange

InitPure ==
    PureInit /\ RetryIdle /\ SchedIdle /\ AfterIdle /\ PipeIdle /\ CacheIdle

SpecPure == InitPure /\ [][PureNext]_vars

(***************************************************************************)
(* Properties of the backoff strategies and of RetryableError.              *)
(***************************************************************************)
\* C18: the deterministic backoff laws.  For every duration d and attempt
\* number n: FixedBackoff(d)(n) = d when n >= 1; LinearBackoff(d)(n) = n*d;
\* NoBackoff()(n) = 0; and FixedBackoff, LinearBackoff, ExponentialBackoff and
\* NoBackoff all return 0 for n = 0.
C18_BackoffLaws ==
    out # Pending =>
        /\ (fn = "FixedBackoff" /\ arg.n >= 1) => out = Returned(arg.d)
        /\ fn = "LinearBackoff" => out = Returned(arg.n * arg.d)
        /\ fn = "NoBackoff" => out = Returned(0)
        /\ (fn \in {"FixedBackoff", "LinearBackoff", "ExponentialBackoff",
                     "NoBackoff"} /\ arg.n = 0) => out = Returned(0)

\* C18 witness: LinearBackoff(2)(3) has returned 6.
C18_Witness ==
    /\ fn = "LinearBackoff"
    /\ arg = [d |-> 2, n |-> 3]
    /\ out = Returned(6)

\* the smaller of two durations
MinDuration(a, b) == IF a <= b THEN a ELSE b

\* C19: ExponentialBackoff(initialDelay, multiplier, maxDelay)(n) with n >= 1,
\* an integer multiplier >= 1, initialDelay >= 0 and maxDelay >= 0 (zero
\* included) returns without faulting, whatever the random source yields, a
\* duration w with delay/2 <= w <= delay <= maxDelay, where
\* delay = min(initialDelay * multiplier^(n-1), maxDelay).
C19_ExponentialWithinBounds ==
    (fn = "ExponentialBackoff" /\ arg.n >= 1 /\ out # Pending) =>
        LET delay == MinDuration(arg.initialDelay * (arg.multiplier ^ (arg.n - 1)),
                                 arg.maxDelay)
        IN  /\ out.status = "ok"
            /\ delay \div 2 <= out.val
            /\ out.val <= delay
            /\ delay <= arg.maxDelay

\* C20: RetryableError(err) is true exactly when err is not nil and its
\* Temporary() returns true or its Timeout() returns true, for every
\* combination of the two methods being absent, returning true or returning
\* false.
C20_RetryableIffTemporaryOrTimeout ==
    (fn = "RetryableError" /\ out # Pending) =>
        out = Returned(/\ ~arg.err.isNil
                       /\ \/ arg.err.temporary = "true"
                          \/ arg.err.timeout = "true")

\* C32: RandIntRange(min, max) with min < max returns without panicking,
\* whatever the random source yields, an int v with min <= v < max.
C32_RandIntRangeWithinBounds ==
    (fn = "RandIntRange" /\ arg.min < arg.max /\ out # Pending) =>
        /\ out.status = "ok"
        /\ arg.min <= out.val
        /\ out.val < arg.max

(***************************************************************************)
(* Pipeline (package pipeline): a channel guarded by an RWMutex, a derived  *)
(* context, and one receiveLoop goroutine fanning out to the receivers.     *)
(* Receivers are registered before the first Send, as RegisterReceiver      *)
(* requires; their handlers return.  Send holds the read lock from its      *)
(* entry to its return; Close holds the write lock for its whole body.      *)
(***************************************************************************)
Senders == 1..NSenders
Closers == 1..NClosers

\* New, followed by the RegisterReceiver calls
PipeInit ==
    /\ bufSize \in 0..MaxBuf
    /\ nRecv \in 0..MaxRecv
    /\ pctxErr = "none"
    /\ closed = FALSE
    /\ closeOps = 0
    /\ fault = "none"
    /\ ch = <<>>
    /\ spc = [s \in Senders |-> "idle"]
    /\ smsg = [s \in Senders |-> 0]
    /\ nextMsg = 0
    /\ cpc = [c \in Closers |-> "idle"]
    /\ rlPc = IF nRecv > 0 THEN "select" ELSE "none"
    /\ rlData = <<0, 0>>
    /\ rlIdx = 0
    /\ sent = <<>>
    /\ delivered = [r \in 1..nRecv |-> <<>>]
    /\ late = {}
    /\ stale = {}
    /\ owed = {}

\* the goroutines inside Send, which hold the read lock
Readers == {s \in Senders : spc[s] # "idle"}

\* a Close call has announced itself at p.Lock(): new readers wait behind it
WriterPending == \E c \in Closers : cpc[c] = "Lock"

\* p.ch <- data can proceed: a free buffer slot, or, when the channel is
\* unbuffered, receiveLoop parked in its select.  The end of p.ctx fires the
\* select of a parked receiveLoop, which then takes no value.
ChanReady ==
    IF bufSize = 0
    THEN rlPc = "select" /\ pctxErr = "none"
    ELSE Len(ch) < bufSize

\* IsClosed()
IsClosed == closed

\* Send: RLock and the closed check
Send_Enter(s) ==
    /\ spc[s] = "idle"
    /\ nextMsg < MaxMsgs
    /\ ~WriterPending
    /\ nextMsg' = nextMsg + 1
    /\ smsg' = IF closed THEN smsg ELSE [smsg EXCEPT ![s] = nextMsg + 1]
    /\ late' = IF \E c \in Closers : cpc[c] = "returned"
               THEN late \cup {nextMsg + 1}
               ELSE late
    /\ spc' = IF closed THEN spc ELSE [spc EXCEPT ![s] = "select"]
    /\ stale' = IF pctxErr # "none" /\ ~closed
                THEN stale \cup {nextMsg + 1}
                ELSE stale
    /\ UNCHANGED <<bufSize, nRecv, pctxErr, closed, closeOps, fault, ch, cpc,
                   rlPc, rlData, rlIdx, sent, delivered, owed,
                   notPipe>>

\* Send: case <-p.ctx.Done()
Send_CtxDone(s) ==
    /\ spc[s] = "select"
    /\ pctxErr # "none"
    /\ spc' = [spc EXCEPT ![s] = "idle"]
    /\ smsg' = [smsg EXCEPT ![s] = 0]
    /\ stale' = stale \ {smsg[s]}
    /\ UNCHANGED <<bufSize, nRecv, pctxErr, closed, closeOps, fault, ch,
                   nextMsg, cpc, rlPc, rlData, rlIdx, sent, delivered, late,
                   owed, notPipe>>

\* Send: case p.ch <- data.  A send on a closed channel panics.
Send_ChSend(s) ==
    /\ spc[s] = "select"
    /\ closeOps > 0 \/ ChanReady
    /\ IF closeOps > 0
       THEN /\ fault' = "send on closed channel"
            /\ spc' = [spc EXCEPT ![s] = "fault"]
            /\ UNCHANGED <<ch, smsg, rlPc, rlData, rlIdx, sent>>
       ELSE /\ spc' = [spc EXCEPT ![s] = "idle"]
            /\ smsg' = [smsg EXCEPT ![s] = 0]
            /\ sent' = Append(sent, <<s, smsg[s]>>)
            /\ IF bufSize = 0
               THEN /\ rlPc' = "handling"
                    /\ rlData' = <<s, smsg[s]>>
                    /\ rlIdx' = 0
                    /\ UNCHANGED ch
               ELSE /\ ch' = Append(ch, <<s, smsg[s]>>)
                    /\ UNCHANGED <<rlPc, rlData, rlIdx>>
            /\ UNCHANGED fault
    /\ UNCHANGED <<bufSize, nRecv, pctxErr, closed, closeOps, nextMsg, cpc,
                   delivered, late, stale, owed, notPipe>>

\* Close: p.Lock() is called
Close_Lock(c) ==
    /\ cpc[c] = "idle"
    /\ cpc' = [cpc EXCEPT ![c] = "Lock"]
    /\ owed' = IF \A d \in Closers : cpc[d] = "idle"
               THEN IF pctxErr = "none" /\ nRecv > 0
                    THEN {sent[i][2] : i \in (Len(delivered[nRecv]) + 1)..Len(sent)}
                    ELSE {}
               ELSE owed
    /\ UNCHANGED <<bufSize, nRecv, pctxErr, closed, closeOps, fault, ch, spc,
                   smsg, nextMsg, rlPc, rlData, rlIdx, sent, delivered, late,
                   stale, notPipe>>

\* variant: the write lock is granted while Send calls hold the read lock
Close_Body_NoExclusion(c) ==
    /\ cpc[c] = "Lock"
    /\ cpc' = [cpc EXCEPT ![c] = "returned"]
    /\ IF ~closed
       THEN /\ pctxErr' = IF pctxErr = "none" THEN "Canceled" ELSE pctxErr
            /\ closeOps' = closeOps + 1
            /\ fault' = IF closeOps > 0 THEN "close of closed channel" ELSE fault
            /\ closed' = TRUE
       ELSE UNCHANGED <<pctxErr, closeOps, fault, closed>>
    /\ UNCHANGED <<bufSize, nRecv, ch, spc, smsg, nextMsg, rlPc, rlData, rlIdx,
                   sent, delivered, late, stale, owed, notPipe>>

\* variant: Close without the check of p.closed
Close_Body_Unguarded(c) ==
    /\ cpc[c] = "Lock"
    /\ Readers = {}
    /\ cpc' = [cpc EXCEPT ![c] = "returned"]
    /\ pctxErr' = IF pctxErr = "none" THEN "Canceled" ELSE pctxErr
    /\ closeOps' = closeOps + 1
    /\ fault' = IF closeOps > 0 THEN "close of closed channel" ELSE fault
    /\ closed' = TRUE
    /\ UNCHANGED <<bufSize, nRecv, ch, spc, smsg, nextMsg, rlPc, rlData, rlIdx,
                   sent, delivered, late, stale, owed, notPipe>>

\* Close: the write lock is granted once no reader holds the lock; the body
\* and the deferred Unlock follow.  Closing a closed channel panics.
Close_Body(c) ==
    /\ cpc[c] = "Lock"
    /\ Readers = {}
    /\ cpc' = [cpc EXCEPT ![c] = "returned"]
    /\ IF ~closed
       THEN /\ pctxErr' = IF pctxErr = "none" THEN "Canceled" ELSE pctxErr
            /\ closeOps' = closeOps + 1
            /\ fault' = IF closeOps > 0 THEN "close of closed channel" ELSE fault
            /\ closed' = TRUE
       ELSE UNCHANGED <<pctxErr, closeOps, fault, closed>>
    /\ UNCHANGED <<bufSize, nRecv, ch, spc, smsg, nextMsg, rlPc, rlData, rlIdx,
                   sent, delivered, late, stale, owed, notPipe>>

\* receiveLoop: case data, ok := <-p.ch with a buffered value
RL_Recv ==
    /\ rlPc = "select"
    /\ ch # <<>>
    /\ rlData' = Head(ch)
    /\ ch' = Tail(ch)
    /\ rlIdx' = 0
    /\ rlPc' = "handling"
    /\ UNCHANGED <<bufSize, nRecv, pctxErr, closed, closeOps, fault, spc, smsg,
                   nextMsg, cpc, sent, delivered, late, stale, owed, notPipe>>

\* variant: the receivers are called from the last registered to the first
RL_Handle_Reversed ==
    /\ rlPc = "handling"
    /\ delivered' = [delivered EXCEPT ![nRecv - rlIdx] = Append(@, rlData)]
    /\ IF rlIdx + 1 = nRecv
       THEN /\ rlPc' = "select"
            /\ rlIdx' = 0
            /\ rlData' = <<0, 0>>
            /\ owed' = owed \ {rlData[2]}
       ELSE rlIdx' = rlIdx + 1 /\ UNCHANGED <<rlPc, rlData, owed>>
    /\ UNCHANGED <<bufSize, nRecv, pctxErr, closed, closeOps, fault, ch, spc,
                   smsg, nextMsg, cpc, sent, late, stale, notPipe>>

\* receiveLoop: for _, handler := range p.receivers { handler(data) }
RL_Handle ==
    /\ rlPc = "handling"
    /\ delivered' = [delivered EXCEPT ![rlIdx + 1] = Append(@, rlData)]
    /\ IF rlIdx + 1 = nRecv
       THEN /\ rlPc' = "select"
            /\ rlIdx' = 0
            /\ rlData' = <<0, 0>>
            /\ owed' = owed \ {rlData[2]}
       ELSE rlIdx' = rlIdx + 1 /\ UNCHANGED <<rlPc, rlData, owed>>
    /\ UNCHANGED <<bufSize, nRecv, pctxErr, closed, closeOps, fault, ch, spc,
                   smsg, nextMsg, cpc, sent, late, stale, notPipe>>

\* receiveLoop: case <-p.ctx.Done(), or the receive from the closed and
\* drained channel (!ok)
RL_Return ==
    /\ rlPc = "select"
    /\ pctxErr # "none" \/ (closeOps > 0 /\ ch = <<>>)
    /\ rlPc' = "exited"
    /\ UNCHANGED <<bufSize, nRecv, pctxErr, closed, closeOps, fault, ch, spc,
                   smsg, nextMsg, cpc, rlData, rlIdx, sent, delivered, late, stale,
                   owed, notPipe>>

\* the parent context handed to New is cancelled or reaches its deadline
Parent_Done ==
    /\ pctxErr = "none"
    /\ pctxErr' \in {"Canceled", "DeadlineExceeded"}
    /\ owed' = {}
    /\ UNCHANGED <<bufSize, nRecv, closed, closeOps, fault, ch, spc, smsg,
                   nextMsg, cpc, rlPc, rlData, rlIdx, sent, delivered, late,
                   stale, notPipe>>

PipeNext ==
    \/ \E s \in Senders : Send_Enter(s)
    \/ \E s \in Senders : Send_CtxDone(s)
    \/ \E s \in Senders : Send_ChSend(s)
    \/ \E c \in Closers : Close_Lock(c)
    \/ \E c \in Closers : Close_Body(c)
    \/ RL_Recv
    \/ RL_Handle
    \/ RL_Return
    \/ Parent_Done

\* Every goroutine that can take a step takes one.  Calls of Send and Close
\* and the end of the parent context are up to the caller.
PipeFairness ==
    /\ \A s \in Senders : WF_vars(Send_CtxDone(s) \/ Send_ChSend(s))
    /\ \A c \in Closers : WF_vars(Close_Body(c))
    /\ WF_vars(RL_Recv \/ RL_Handle \/ RL_Return)

InitPipe ==
    PipeInit /\ RetryIdle /\ SchedIdle /\ AfterIdle /\ PureIdle /\ CacheIdle

SpecPipe == InitPipe /\ [][PipeNext]_vars /\ PipeFairness

(***************************************************************************)
(* Properties of the Pipeline.                                              *)
(***************************************************************************)

\* C26: under every interleaving of concurrent Send and Close calls no value
\* is sent on the closed channel (no channel operation panics), and a Send
\* that takes the read lock after a Close has returned, which covers every
\* Send that starts after a Close has returned, puts nothing on the channel
\* and returns without reaching its select.
C26_NoSendOnClosedChannel ==
    /\ fault = "none"
    /\ \A s \in Senders : spc[s] # "fault"
    /\ \A s \in Senders : spc[s] = "select" => smsg[s] \notin late
    /\ \A i \in 1..Len(sent) : sent[i][2] \notin late

\* a Send got its value through before the pipeline was closed, every Close
\* has returned, and a later Send found the pipeline closed and returned
C26_Witness ==
    /\ closed
    /\ late # {}
    /\ sent # <<>>
    /\ \A s \in Senders : spc[s] = "idle"
    /\ \A c \in Closers : cpc[c] = "returned"

\* C27: IsClosed is false until a Close has run, true once a Close has
\* returned, and never goes back to false; the channel is closed exactly once
\* however many Close calls run, none of them panics, and a Close that finds
\* the pipeline closed changes nothing; the end of the parent context leaves
\* IsClosed as it was.
C27_ClosedFlag ==
    /\ []((\A c \in Closers : cpc[c] = "idle") => ~IsClosed)
    /\ []((\E c \in Closers : cpc[c] = "returned") => IsClosed)
    /\ [](closeOps = (IF IsClosed THEN 1 ELSE 0))
    /\ [](fault # "close of closed channel")
    /\ [][IsClosed => IsClosed']_vars
    /\ [][\A c \in Closers :
            (IsClosed /\ cpc[c] = "Lock" /\ cpc'[c] = "returned") =>
                UNCHANGED <<bufSize, nRecv, pctxErr, closed, closeOps, fault,
                            ch, spc, smsg, nextMsg, rlPc, rlData, rlIdx, sent,
                            delivered, late>>]_vars
    /\ [][Parent_Done => UNCHANGED closed]_vars

\* every Close call has returned, the later one having found the pipeline
\* closed, and the channel was closed once
C27_Witness ==
    /\ \A c \in Closers : cpc[c] = "returned"
    /\ IsClosed
    /\ closeOps = 1
    /\ fault = "none"

\* C28: whatever the buffer size, the buffer occupancy and the number of
\* registered receivers (zero included), and whatever Send calls run
\* concurrently, a call to Close eventually returns and IsClosed eventually
\* reports true.
C28_CloseTerminates ==
    \A c \in Closers :
        /\ cpc[c] = "Lock" ~> cpc[c] = "returned"
        /\ cpc[c] = "Lock" ~> IsClosed

\* C29: on an open pipeline whose context is not done a Send never waits: when
\* it reaches its select, the channel send can proceed at once, whatever the
\* occupancy of the buffer (full buffer and buffer size 0 included) and
\* whether or not a receiver is taking values.
C29_SendNeverWaits ==
    \A s \in Senders :
        (spc[s] = "select" /\ ~closed /\ pctxErr = "none") => ChanReady

\* a is an initial segment of b
IsPrefix(a, b) == Len(a) <= Len(b) /\ a = SubSeq(b, 1, Len(a))

\* C30: with the receivers registered before the first Send, each receiver is
\* handed the values in the order in which they went onto the channel, each
\* value once; the Sends of one goroutine go onto the channel in the order of
\* its calls; for each value the receivers are called in registration order,
\* a receiver getting the value only after every receiver registered before
\* it, and before any receiver gets the next value; and as long as the
\* pipeline is neither closed nor cancelled every value sent is eventually
\* handed to every registered receiver.
C30_FanOutInOrder ==
    /\ [](\A r \in 1..nRecv : IsPrefix(delivered[r], sent))
    /\ [](\A i, j \in 1..Len(sent) :
            (i < j /\ sent[i][1] = sent[j][1]) => sent[i][2] < sent[j][2])
    /\ [](\A r \in 1..(nRecv - 1) :
            /\ Len(delivered[r + 1]) <= Len(delivered[r])
            /\ Len(delivered[1]) <= Len(delivered[r + 1]) + 1)
    /\ \A k \in 1..MaxMsgs :
         Len(sent) >= k ~>
             \/ closed
             \/ pctxErr # "none"
             \/ \A r \in 1..nRecv : Len(delivered[r]) >= k

\* MaxMsgs values were sent through a buffer of two, by two goroutines and
\* not in the order in which the calls began, and every one of MaxRecv
\* receivers has been handed all of them with the pipeline open
C30_Witness ==
    /\ ~closed
    /\ pctxErr = "none"
    /\ nRecv = MaxRecv
    /\ bufSize = 2
    /\ Len(sent) = MaxMsgs
    /\ \E i \in 1..(MaxMsgs - 1) : sent[i][2] > sent[i + 1][2]
    /\ \A r \in 1..nRecv : delivered[r] = sent

\* C31: a Send that begins after the pipeline's context is done (cancelled or
\* deadline exceeded) never has its value handed to a registered receiver,
\* however Send and receiveLoop interleave.
C31_NoDeliveryAfterContextDone ==
    \A r \in 1..nRecv :
        \A i \in 1..Len(delivered[r]) : delivered[r][i][2] \notin stale

\* C38: once receiveLoop has ended after a Close, with the parent context
\* live until then, every value whose channel send was complete when Close
\* was first called has been handed to every registered receiver, the values
\* that were still in the buffer at that moment included.
C38_NoAcceptedMessageLost ==
    (closed /\ rlPc = "exited") => owed = {}

(***************************************************************************)
(* BasicCache (cache package, part_008): a sync.Map of entries with an      *)
(* expiry, and a sweep that scheduler.Every runs until the context given to *)
(* NewBasic is cancelled.  The operations on the sync.Map (Load, Store,     *)
(* Delete) are atomic one by one; Update and the callback of the sweep's    *)
(* Range are several of them.  The Value of an entry is carried along       *)
(* unread by every operation modelled here and is left out.                 *)
(***************************************************************************)
\* NewBasic: an empty map, and the loop of Every started
CacheInit ==
    /\ cache = [k \in CacheKeys |-> NoEntry]
    /\ clock = 1
    /\ cctxDone = FALSE
    /\ sweepDue = FALSE
    /\ swPc = "select"
    /\ swSeen = {}
    /\ swKey = 0
    /\ swEntry = NoEntry
    /\ res = NoRes
    /\ upd = [key |-> 0, entry |-> NoEntry, expiration |-> 0]

\* Add(key, value, expiration)
Add(k, d) ==
    /\ cache' = [cache EXCEPT ![k] =
                    [expiry |-> IF d # 0 THEN clock + d ELSE 0]]
    /\ UNCHANGED <<notCache, clock, cctxDone, sweepDue, swPc, swSeen, swKey,
                   swEntry, res, upd>>

\* Get(key): the Load alone decides
Get(k) ==
    /\ res = NoRes
    /\ res' = [op |-> "Get", keys |-> IF cache[k] # NoEntry THEN {k} ELSE {}]
    /\ UNCHANGED <<notCache, cache, clock, cctxDone, sweepDue, swPc, swSeen,
                   swKey, swEntry, upd>>

\* Exists(key)
Exists(k) ==
    /\ res = NoRes
    /\ res' = [op |-> "Exists", keys |-> IF cache[k] # NoEntry THEN {k} ELSE {}]
    /\ UNCHANGED <<notCache, cache, clock, cctxDone, sweepDue, swPc, swSeen,
                   swKey, swEntry, upd>>

\* Keys(): every key the Range meets
Keys ==
    /\ res = NoRes
    /\ res' = [op |-> "Keys", keys |-> {k \in CacheKeys : cache[k] # NoEntry}]
    /\ UNCHANGED <<notCache, cache, clock, cctxDone, sweepDue, swPc, swSeen,
                   swKey, swEntry, upd>>

\* the caller of Get, Exists or Keys goes on
Caller_Return ==
    /\ res # NoRes
    /\ res' = NoRes
    /\ UNCHANGED <<notCache, cache, clock, cctxDone, sweepDue, swPc, swSeen,
                   swKey, swEntry, upd>>

\* Update(key, newValue, expiration): the Load
Update_Load(k, d) ==
    /\ upd.key = 0
    /\ upd' = [key |-> k, entry |-> cache[k], expiration |-> d]
    /\ UNCHANGED <<notCache, cache, clock, cctxDone, sweepDue, swPc, swSeen,
                   swKey, swEntry, res>>

\* Update: false if the Load found nothing, else the loaded entry is stored
\* back, with a new expiry if expiration is not 0
Update_Store ==
    /\ upd.key # 0
    /\ cache' = IF upd.entry = NoEntry
                THEN cache
                ELSE [cache EXCEPT ![upd.key] =
                         IF upd.expiration # 0
                         THEN [expiry |-> clock + upd.expiration]
                         ELSE upd.entry]
    /\ upd' = [key |-> 0, entry |-> NoEntry, expiration |-> 0]
    /\ UNCHANGED <<notCache, clock, cctxDone, sweepDue, swPc, swSeen, swKey,
                   swEntry, res>>

\* time passes; the ticker of Every may have a tick ready (its channel holds
\* one), unless the loop has returned and stopped it
Clock_Advance ==
    /\ clock < MaxClock
    /\ clock' = clock + 1
    /\ \E due \in BOOLEAN :
          sweepDue' = (sweepDue \/ (due /\ swPc # "exited"))
    /\ UNCHANGED <<notCache, cache, cctxDone, swPc, swSeen, swKey, swEntry, res,
                   upd>>

\* the context given to NewBasic is cancelled
Cache_Cancel ==
    /\ ~cctxDone
    /\ cctxDone' = TRUE
    /\ UNCHANGED <<notCache, cache, clock, sweepDue, swPc, swSeen, swKey,
                   swEntry, res, upd>>

\* Every: case <-ctx.Done()
Sweep_Exit ==
    /\ swPc = "select"
    /\ cctxDone
    /\ swPc' = "exited"
    /\ sweepDue' = FALSE
    /\ UNCHANGED <<notCache, cache, clock, cctxDone, swSeen, swKey, swEntry, res,
                   upd>>

\* Every: case <-ticker.C, the callback calls cleanupExpiredEntries (select
\* takes either case when both are ready)
Sweep_Start ==
    /\ swPc = "select"
    /\ sweepDue
    /\ sweepDue' = FALSE
    /\ swPc' = "range"
    /\ swSeen' = {}
    /\ UNCHANGED <<notCache, cache, clock, cctxDone, swKey, swEntry, res, upd>>

\* cleanupExpiredEntries: Range hands a key and the value it holds to the
\* callback, every key once
Sweep_Visit(k) ==
    /\ swPc = "range"
    /\ k \notin swSeen
    /\ cache[k] # NoEntry
    /\ swSeen' = swSeen \cup {k}
    /\ swKey' = k
    /\ swEntry' = cache[k]
    /\ swPc' = "callback"
    /\ UNCHANGED <<notCache, cache, clock, cctxDone, sweepDue, res, upd>>

\* the callback of Range: the entry it was handed is skipped if its expiry is
\* zero or not passed
Sweep_Callback ==
    /\ swPc = "callback"
    /\ IF ~IsZero(swEntry) /\ Expired(swEntry)
       THEN /\ swPc' = "delete"
            /\ UNCHANGED swKey
       ELSE /\ swPc' = "range"
            /\ swKey' = 0
    /\ swEntry' = NoEntry
    /\ UNCHANGED <<notCache, cache, clock, cctxDone, sweepDue, swSeen, res, upd>>

\* the callback of Range: c.cache.Delete(key)
Sweep_Delete ==
    /\ swPc = "delete"
    /\ cache' = [cache EXCEPT ![swKey] = NoEntry]
    /\ swPc' = "range"
    /\ swKey' = 0
    /\ UNCHANGED <<notCache, clock, cctxDone, sweepDue, swSeen, swEntry, res, upd>>

\* Range has met every key; back to the select of Every
Sweep_Done ==
    /\ swPc = "range"
    /\ \A k \in CacheKeys \ swSeen : cache[k] = NoEntry
    /\ swPc' = "select"
    /\ swSeen' = {}
    /\ UNCHANGED <<notCache, cache, clock, cctxDone, sweepDue, swKey, swEntry,
                   res, upd>>

CacheNext ==
    \/ \E k \in CacheKeys : \E d \in 0..MaxExpiration : Add(k, d)
    \/ \E k \in CacheKeys : Get(k)
    \/ \E k \in CacheKeys : Exists(k)
    \/ Keys
    \/ Caller_Return
    \/ \E k \in CacheKeys : \E d \in 0..MaxExpiration : Update_Load(k, d)
    \/ Update_Store
    \/ Clock_Advance
    \/ Cache_Cancel
    \/ Sweep_Exit
    \/ Sweep_Start
    \/ \E k \in CacheKeys : Sweep_Visit(k)
    \/ Sweep_Callback
    \/ Sweep_Delete
    \/ Sweep_Done

InitCache ==
    CacheInit /\ RetryIdle /\ SchedIdle /\ AfterIdle /\ PureIdle /\ PipeIdle

SpecCache == InitCache /\ [][CacheNext]_vars

\* C39: Get, Exists and Keys never report a key whose entry has an expiry
\* that has passed at the moment of the call, between two sweeps and after the
\* context of the cache was cancelled alike.
C39_NoExpiredEntryServed ==
    [][(res = NoRes /\ res' # NoRes) =>
          \A k \in res'.keys : ~Expired(cache[k])]_vars

\* C40: the sweep deletes the entry of a key only if the entry stored under
\* the key at the moment of the Delete has a non-zero expiry that has passed,
\* whatever Add and Update did since Range handed the entry to the callback.
C40_SweepDeletesOnlyExpired ==
    [][(swPc = "delete" /\ swPc' # "delete" /\ cache[swKey] # NoEntry) =>
          Expired(cache[swKey])]_vars

====
